---------------------------- MODULE Spec2Model ----------------------------
(***************************************************************************)
(* Model of the admission-controlled priority job scheduler                *)
(* (src/services/smartQueueService.js) and of the remote worker client it  *)
(* calls (src/services/runpodService.js).                                  *)
(*                                                                         *)
(* Execution model.  The service is one Node.js process: code between two  *)
(* awaits runs atomically, and every await is a point where another        *)
(* invocation may run.  All store (Redis) commands travel over one         *)
(* pipelined connection, so the store executes them in the order in which  *)
(* they were issued; a command's effect (and the value it reads) is        *)
(* therefore modelled at the moment the command is issued, and the code    *)
(* after the await resumes in a later step.  Time is counted in minutes.   *)
(***************************************************************************)
EXTENDS Integers, Sequences, FiniteSets, TLC

(***************************************************************************)
(* Bounds of the model.                                                    *)
(***************************************************************************)
MaxJobs == 6            \* job ids; the most external addJob calls of any scenario
PipelineJobs == 2       \* external addJob calls in the pipeline scenario
LongJobs == 1           \* external addJob calls in the long-running scenario
BreakerJobs == 2        \* external addJob calls in the circuit breaker scenario
DispatchJobs == 3       \* external addJob calls in the dispatch scenario
RetryJobs == 1          \* external addJob calls in the retry scenario
RetryTime == 3          \* minutes the clock is followed through in the retry scenario
MonitorJobs == 1        \* external addJob calls in the monitoring scenario
ScenarioJobs == 1       \* external addJob calls in the completion scenario
MaxTime == 1            \* single minutes the clock is followed through after the start
MaxCalls == 2           \* remote HTTP requests made by one client call
ProbeJobs == 2          \* external addJob calls in the probe scenario
ValidateJobs == 6       \* external addJob calls in the validation scenario
TripJobs == 2           \* external addJob calls in the tripping scenario
TripCalls == 6          \* remote HTTP requests of one submission in the tripping scenario
PriorityJobs == 2       \* external addJob calls in the priority scenario
TimeoutJobs == 1        \* external addJob calls in the timeout scenario
FloodJobs == 2          \* job ids in use at a time in the flood scenario
FaultJobs == 2          \* external addJob calls with job data in the fault scenario
StoreJobs == 2          \* external addJob calls in the store failure scenario
HealthJobs == 3         \* external addJob calls in the health scenario

(***************************************************************************)
(* Program constants (minutes, where they are durations).                  *)
(***************************************************************************)
RUNPOD_RATE_LIMIT == 2      \* process.env.RUNPOD_RATE_LIMIT, default '8'
MAX_CONCURRENT_JOBS == 2    \* process.env.MAX_CONCURRENT_JOBS, default '5'
PRIORITY_FILE_LIMIT == 1    \* process.env.PRIORITY_FILE_LIMIT, default '3'
MAX_QUEUE_SIZE == 3         \* process.env.MAX_QUEUE_SIZE, default '50'
UserConcurrentLimit == 2    \* concurrent >= 2
UserHourlyLimit == 5        \* hourlyCount >= 5
HourWindow == 60            \* 3600000 ms
RateWindow == 1             \* 60000 ms
FailureThreshold == 5       \* failures >= 5
FailureWindow == 1          \* expire('runpod_failures', 60)
CoolDown == 5               \* setTimeout(..., 300000)
MaxRetries == 3             \* retryCount >= 3
RetryBaseDelay == 1         \* 60000 ms
JobTimeoutAge == 45         \* 45 * 60 * 1000
StaleJobAge == 60           \* 60 * 60 * 1000
StartTime == 100            \* Date.now() at construction: later than one hour after the epoch

JobIds == 1..MaxJobs
InputUsers == {"u1", "null"}          \* req.user id, or null for an anonymous caller
StorageTypes == {"file", "url"}
AllStorageTypes == {"file", "local", "url"}
Priorities == {"HIGH", "NORMAL"}

RetryCtx == "retry"                   \* the addJob invocation made by processRetryQueue

VARIABLES
  now,                  \* Date.now(), in minutes
  qHigh,                \* store list queue:files  (index 1 = lpush side, Len = rpop side)
  qNormal,              \* store list queue:urls
  qRetry,               \* store list queue:retry
  userKeys,             \* store hashes user:<id>
  status,               \* store keys status:<id>
  runpodFailures,       \* store key runpod_failures, with its expiry
  processingJobs,       \* this.processingJobs
  runpodRequestTimes,   \* this.runpodRequestTimes
  circuitBreakerState,  \* this.circuitBreakerState
  metrics,              \* this.metrics
  timers,               \* pending setTimeout callbacks of handleRunpodError (due times)
  adm,                  \* addJob invocations
  disp,                 \* processQueue invocations
  mon,                  \* monitorRunningJobs invocations
  clean,                \* the performCleanup invocation
  remote,               \* the remote worker's job states
  nextId,               \* next fresh separationId
  retryDelays,          \* history: delays of the successive retry schedulings per job
  admitTimes,           \* history: times of the accepted addJob calls per user
  audit,                \* whether the histories of calls and failures are being recorded
  serviceFailureTimes,  \* history: times of the service-level failures of submissions
  lastJobData,          \* history: the jobData of the latest addJob call
  health                \* the healthCheck invocation and what it returned

vars == <<now, qHigh, qNormal, qRetry, userKeys, status, runpodFailures,
          processingJobs, runpodRequestTimes, circuitBreakerState, metrics,
          timers, adm, disp, mon, clean, remote, nextId,
          retryDelays, admitTimes, audit, health, serviceFailureTimes, lastJobData>>

(***************************************************************************)
(* Small helpers.                                                          *)
(***************************************************************************)
RECURSIVE Pow2(_)
Pow2(n) == IF n <= 0 THEN 1 ELSE 2 * Pow2(n - 1)

\* redis.lpush(key, value): the new element becomes the head of the list.
\* a push on the end that rpop takes from
rpush(list, v) == list \o <<v>>

lpush(list, v) == <<v>> \o list

\* redis.rpop(key): the element at the tail, and the list without it.
rpopValue(list) == list[Len(list)]
rpopRest(list) == SubSeq(list, 1, Len(list) - 1)

IdsOf(list) == {list[i].separationId : i \in 1..Len(list)}

Users == {"u1", "unknown"}

\* const userId = jobData.userId || 'unknown'
UserIdOf(u) == IF u = "null" THEN "unknown" ELSE u

\* jobData.separationId of a job data object that has none (undefined), and the
\* key status:undefined.
NoId == 0
StatusKeys == JobIds \cup {NoId}

\* payload: whether the job data has a filePath or publicUrl.
NoJobData == [separationId |-> NoId, userId |-> "null", storageType |-> "url",
              priority |-> "NONE", retryCount |-> 0, retryAt |-> 0, payload |-> TRUE]

\* The job data an HTTP handler passes to addJob.
NewJobData(id, u, st) == [separationId |-> id, userId |-> u, storageType |-> st,
                          priority |-> "NONE", retryCount |-> 0, retryAt |-> 0,
                          payload |-> TRUE]

PriorityOfFile(job) == IF job.storageType = "file" THEN "HIGH" ELSE "NORMAL"

\* const isFileUpload = storageType === 'file' || storageType === 'local'
PriorityOf(job) == IF job.storageType \in {"file", "local"} THEN "HIGH" ELSE "NORMAL"

\* enhancedJobData = {...jobData, priority, addedAt, retryCount: 0, userId, estimatedTime}
enhancedJobData(job) == [job EXCEPT !.priority = PriorityOf(job),
                                    !.retryCount = 0,
                                    !.userId = UserIdOf(job.userId)]

NoUserKey == [concurrent |-> 0, hourly |-> 0, lastHourReset |-> 0]
NoStatus == [status |-> "NONE", output |-> FALSE]
NoObject == [inMap |-> FALSE, priority |-> "NONE", userId |-> "null",
             startedAt |-> 0, runpodJobId |-> 0]
IdleAdm == [pc |-> "idle", job |-> NoJobData, size |-> 0]
IdleDisp == [pc |-> "idle", priority |-> "NONE", job |-> NoJobData, calls |-> 0]
IdleMon == [pc |-> "idle", rest |-> {}, job |-> 0, startedAt |-> 0, res |-> "NONE",
            had |-> FALSE, user |-> "null", calls |-> 0]
IdleClean == [pc |-> "idle", rest |-> {}, job |-> 0, had |-> FALSE, user |-> "null"]
IdleHealth == [pc |-> "idle", runpod |-> FALSE, queueSize |-> 0, redis |-> FALSE,
               healthy |-> FALSE, failed |-> FALSE]

\* this.processingJobs.size
processingSize(pj) == Cardinality({i \in JobIds : pj[i].inMap})

\* this.processingJobs.set(separationId, {...jobData, startedAt, status, runpodJobId: null})
processingJobsSet(pj, job, t) ==
  [pj EXCEPT ![job.separationId] =
     [inMap |-> TRUE, priority |-> job.priority, userId |-> job.userId,
      startedAt |-> t, runpodJobId |-> 0]]

processingJobsDeleteKeep(pj, id) == pj

\* this.processingJobs.delete(separationId)
processingJobsDelete(pj, id) == [pj EXCEPT ![id] = NoObject]

\* The job object leaves the map: a tick that still holds a reference to it
\* keeps the object.  One without runpodJobId will never get one, so the loop
\* will skip it; one with a runpodJobId is still polled.
dropReferences(mn, pj, id) ==
  IF ~pj[id].inMap THEN mn
  ELSE [m \in DOMAIN mn |->
         [mn[m] EXCEPT !.rest =
            IF pj[id].runpodJobId = 0
            THEN {e \in @ : e.id # id}
            ELSE {IF e.id = id THEN [e EXCEPT !.gone = TRUE] ELSE e : e \in @}]]

updateJobStatusLost(st, id, s, out) == st

\* updateJobStatus: redis.set(`status:${id}`, {separationId, status, updatedAt, ...})
updateJobStatus(st, id, s, out) ==
  [st EXCEPT ![id] = [status |-> s, output |-> out]]

getTotalQueueSizeWaiting == Len(qHigh) + Len(qNormal)

\* getTotalQueueSize
getTotalQueueSize == Len(qHigh) + Len(qNormal) + Len(qRetry)

(***************************************************************************)
(* Initial state: the state after the constructor, with an empty store.    *)
(***************************************************************************)
InitWith(addSlots, dispSlots, monSlots, failures, recordAdmits) ==
  /\ now = StartTime
  /\ qHigh = <<>> /\ qNormal = <<>> /\ qRetry = <<>>
  /\ userKeys = [u \in Users |-> NoUserKey]
  /\ status = [i \in StatusKeys |-> NoStatus]
  /\ runpodFailures = IF failures = 0 THEN [count |-> 0, expireAt |-> 0]
                      ELSE [count |-> failures, expireAt |-> StartTime + FailureWindow]
  /\ processingJobs = [i \in JobIds |-> NoObject]
  /\ runpodRequestTimes = <<>>
  /\ circuitBreakerState = "CLOSED"
  /\ metrics = [totalProcessed |-> 0, totalFailed |-> 0, queueFullRejections |-> 0,
                circuitBreakerTrips |-> 0]
  /\ timers = <<>>
  /\ adm = [a \in addSlots \cup {RetryCtx} |-> IdleAdm]
  /\ disp = [d \in dispSlots |-> IdleDisp]
  /\ mon = [m \in monSlots |-> IdleMon]
  /\ clean = IdleClean
  /\ remote = [i \in JobIds |-> "NONE"]
  /\ nextId = 1
  /\ retryDelays = [i \in JobIds |-> <<>>]
  /\ admitTimes = [u \in Users |-> <<>>]
  /\ audit = recordAdmits
  /\ serviceFailureTimes = <<>>
  /\ lastJobData = NoJobData
  /\ health = IdleHealth

(***************************************************************************)
(* addJob                                                                  *)
(***************************************************************************)
\* checkUserLimits, on the hash read by hgetall: "REJECT" is `return false`,
\* "RESET" the branch that issues hset and then returns true, "OK" `return true`.
checkUserLimits(ud, t) ==
  IF ud.concurrent >= UserConcurrentLimit THEN "REJECT"
  ELSE IF ud.lastHourReset < t - HourWindow THEN "RESET"
  ELSE IF ud.hourly >= UserHourlyLimit THEN "REJECT"
  ELSE "OK"

\* updateUserLimits: hincrby concurrent 1, hincrby hourly 1.  (The two-hour time
\* to live set by `expire` is longer than any run of the model.)
updateUserLimits(uk, u) ==
  [uk EXCEPT ![u].concurrent = @ + 1, ![u].hourly = @ + 1]

decrementUserConcurrentLost(uk, u) == uk

\* decrementUserConcurrent: hincrby concurrent -1 (userId is always set on a queued job).
decrementUserConcurrent(uk, u) ==
  IF u = "null" THEN uk ELSE [uk EXCEPT ![u].concurrent = @ - 1]

\* setImmediate(() => this.processQueue(priority)), when the processing set has room.
\* The pending callback occupies an invocation slot; with none free it is dropped.
FreeDisp == {d \in DOMAIN disp : disp[d].pc = "idle"}
triggerProcessing(dp, pj, p) ==
  IF processingSize(pj) < MAX_CONCURRENT_JOBS /\ FreeDisp # {}
  THEN [dp EXCEPT ![CHOOSE d \in FreeDisp : TRUE] =
          [IdleDisp EXCEPT !.pc = "immediate", !.priority = p]]
  ELSE dp

addJobAfterLimitsAnyState(a, job, uk) ==
  /\ userKeys' = uk
  /\ adm' = [adm EXCEPT ![a] = [pc |-> "capacity", job |-> job,
                                 size |-> getTotalQueueSize]]
  /\ UNCHANGED status

\* addJob lines 99-109, entered once checkUserLimits has returned true: the
\* circuit breaker check, then the three llen of getTotalQueueSize are issued.
addJobAfterLimits(a, job, uk) ==
  /\ userKeys' = uk
  /\ IF circuitBreakerState = "OPEN"
     THEN /\ status' = updateJobStatus(status, job.separationId, "SERVICE_UNAVAILABLE", FALSE)
          /\ adm' = [adm EXCEPT ![a] = IdleAdm]
     ELSE /\ adm' = [adm EXCEPT ![a] = [pc |-> "capacity", job |-> job,
                                        size |-> getTotalQueueSize]]
          /\ UNCHANGED status

\* addJob lines 83-97: validation, hgetall and the verdict of checkUserLimits.
\* Sets userKeys', status' and adm'.
addJobEnter(a, job) ==
  LET u == UserIdOf(job.userId)
      verdict == checkUserLimits(userKeys[u], now)
  IN CASE verdict = "REJECT" ->
            /\ status' = updateJobStatus(status, job.separationId, "RATE_LIMITED", FALSE)
            /\ adm' = [adm EXCEPT ![a] = IdleAdm]
            /\ UNCHANGED userKeys
       [] verdict = "RESET" ->
            /\ userKeys' = [userKeys EXCEPT ![u].hourly = 0, ![u].lastHourReset = now]
            /\ adm' = [adm EXCEPT ![a] = [pc |-> "reset", job |-> job, size |-> 0]]
            /\ UNCHANGED status
       [] OTHER -> addJobAfterLimits(a, job, userKeys)

FreeAdd == {a \in DOMAIN adm \ {RetryCtx} : adm[a].pc = "idle"}

\* The jobData an addJob call was made with.
RecordCall(job) == IF audit THEN job ELSE lastJobData

\* A caller calls addJob with a job data object that has a fresh separationId;
\* `payloads` says whether it may have and may lack filePath and publicUrl.
AddJobCallWith(limit, users, storages, payloads) ==
  /\ nextId <= limit
  /\ FreeAdd # {}
  /\ \E u \in users, st \in storages, pl \in payloads :
       LET job == [NewJobData(nextId, u, st) EXCEPT !.payload = pl]
       IN /\ addJobEnter(CHOOSE a \in FreeAdd : TRUE, job)
          /\ lastJobData' = RecordCall(job)
  /\ nextId' = nextId + 1
  /\ UNCHANGED <<now, qHigh, qNormal, qRetry, runpodFailures, processingJobs,
                 runpodRequestTimes, circuitBreakerState, metrics, timers, disp, mon,
                 clean, remote, retryDelays, admitTimes, audit, health, serviceFailureTimes>>

\* An HTTP handler calls addJob with a fresh separationId and the file's URL.
AddJobCall(limit, users, storages) == AddJobCallWith(limit, users, storages, {TRUE})

\* addJob lines 83-85 and 164-169: a caller calls addJob with a job data object
\* without separationId.  The `throw` is caught by addJob's own catch, which
\* writes the status QUEUE_ERROR under the key of the missing id and returns
\* false.
AddJobWithoutId(users, storages) ==
  /\ FreeAdd # {}
  /\ status' = updateJobStatus(status, NoId, "QUEUE_ERROR", FALSE)
  /\ \E u \in users, st \in storages :
       lastJobData' = RecordCall(NewJobData(NoId, u, st))
  /\ UNCHANGED <<now, qHigh, qNormal, qRetry, userKeys, runpodFailures,
                 processingJobs, runpodRequestTimes, circuitBreakerState, metrics,
                 timers, adm, disp, mon, clean, remote, nextId, retryDelays,
                 admitTimes, audit, health, serviceFailureTimes>>

\* addJob lines 83-85 and 164-169: a caller calls addJob(null) (or with
\* undefined).  `!jobData` throws inside the try; the catch evaluates
\* jobData.separationId, the argument of its updateJobStatus call, which throws
\* a TypeError that nothing catches: the invocation ends by throwing and
\* nothing has been written.
AddJobNull ==
  /\ FreeAdd # {}
  /\ adm' = [adm EXCEPT ![CHOOSE a \in FreeAdd : TRUE] = [IdleAdm EXCEPT !.pc = "threw"]]
  /\ UNCHANGED <<now, qHigh, qNormal, qRetry, userKeys, status, runpodFailures,
                 processingJobs, runpodRequestTimes, circuitBreakerState, metrics,
                 timers, disp, mon, clean, remote, nextId, retryDelays,
                 admitTimes, audit, health, serviceFailureTimes, lastJobData>>

\* The rejection of the promise addJob returned has reached the caller.
AddJobThrown(a) ==
  /\ adm[a].pc = "threw"
  /\ adm' = [adm EXCEPT ![a] = IdleAdm]
  /\ UNCHANGED <<now, qHigh, qNormal, qRetry, userKeys, status, runpodFailures,
                 processingJobs, runpodRequestTimes, circuitBreakerState, metrics,
                 timers, disp, mon, clean, remote, nextId, retryDelays,
                 admitTimes, audit, health, serviceFailureTimes, lastJobData>>

\* checkUserLimits resumes after its hset and returns true.
AddJobAfterReset(a) ==
  /\ adm[a].pc = "reset"
  /\ addJobAfterLimits(a, adm[a].job, userKeys)
  /\ UNCHANGED <<now, qHigh, qNormal, qRetry, runpodFailures, processingJobs,
                 runpodRequestTimes, circuitBreakerState, metrics, timers, disp, mon,
                 clean, remote, nextId, retryDelays, admitTimes, audit, health,
                 serviceFailureTimes, lastJobData>>

\* addJob lines 110-139, with the queue size read before the await.
AddJobCapacity(a) ==
  /\ adm[a].pc = "capacity"
  /\ LET job == adm[a].job
         enhanced == enhancedJobData(job)
     IN IF adm[a].size >= MAX_QUEUE_SIZE
        THEN /\ metrics' = [metrics EXCEPT !.queueFullRejections = @ + 1]
             /\ status' = updateJobStatus(status, job.separationId, "QUEUE_FULL", FALSE)
             /\ adm' = [adm EXCEPT ![a] = IdleAdm]
             /\ UNCHANGED <<qHigh, qNormal>>
        ELSE /\ IF enhanced.priority = "HIGH"
                THEN qHigh' = lpush(qHigh, enhanced) /\ UNCHANGED qNormal
                ELSE qNormal' = lpush(qNormal, enhanced) /\ UNCHANGED qHigh
             /\ adm' = [adm EXCEPT ![a] = [pc |-> "pushed", job |-> enhanced, size |-> 0]]
             /\ UNCHANGED <<metrics, status>>
  /\ UNCHANGED <<now, qRetry, userKeys, runpodFailures, processingJobs,
                 runpodRequestTimes, circuitBreakerState, timers, disp, mon, clean,
                 remote, nextId, retryDelays, admitTimes, audit, health,
                 serviceFailureTimes, lastJobData>>

AdmitCap == 7
RecordAdmit(at, u, t) ==
  IF ~audit \/ Len(at[u]) >= AdmitCap THEN at ELSE [at EXCEPT ![u] = Append(@, t)]

\* addJob lines 141-162: updateUserLimits, llen, the QUEUED status, the
\* setImmediate trigger and `return true`.
AddJobQueued(a) ==
  /\ adm[a].pc = "pushed"
  /\ LET job == adm[a].job
     IN /\ userKeys' = updateUserLimits(userKeys, job.userId)
        /\ status' = updateJobStatus(status, job.separationId, "QUEUED", FALSE)
        /\ admitTimes' = RecordAdmit(admitTimes, job.userId, now)
        /\ disp' = triggerProcessing(disp, processingJobs, job.priority)
  /\ adm' = [adm EXCEPT ![a] = IdleAdm]
  /\ UNCHANGED <<now, qHigh, qNormal, qRetry, runpodFailures, processingJobs,
                 runpodRequestTimes, circuitBreakerState, metrics, timers, mon, clean,
                 remote, nextId, retryDelays, audit, health, serviceFailureTimes, lastJobData>>

(***************************************************************************)
(* processQueue / startJobProcessing                                       *)
(***************************************************************************)
canProcessMoreJobs(pj, p) ==
  /\ processingSize(pj) < MAX_CONCURRENT_JOBS
  /\ p = "HIGH" =>
       Cardinality({i \in JobIds : pj[i].inMap /\ pj[i].priority = "HIGH"})
         < PRIORITY_FILE_LIMIT

\* the filter of canMakeRunpodRequest and of resetRateLimits
pruneRequestTimes(times, t) == SelectSeq(times, LAMBDA x : x > t - RateWindow)

canMakeRunpodRequest(times, t) == Len(pruneRequestTimes(times, t)) < RUNPOD_RATE_LIMIT

\* recordRunpodRequest
recordRunpodRequest(times, t) == Append(times, t)

queueOf(p) == IF p = "HIGH" THEN qHigh ELSE qNormal

\* processQueue lines 176-194 in invocation slot d: the two synchronous checks,
\* then rpop.  An invocation that returns early leaves its slot idle.
processQueueBody(d, p) ==
  IF ~canProcessMoreJobs(processingJobs, p)
  THEN /\ disp' = [disp EXCEPT ![d] = IdleDisp]
       /\ UNCHANGED <<qHigh, qNormal, runpodRequestTimes>>
  ELSE /\ runpodRequestTimes' = pruneRequestTimes(runpodRequestTimes, now)
       /\ IF ~canMakeRunpodRequest(runpodRequestTimes, now) \/ queueOf(p) = <<>>
          THEN /\ disp' = [disp EXCEPT ![d] = IdleDisp]
               /\ UNCHANGED <<qHigh, qNormal>>
          ELSE /\ disp' = [disp EXCEPT ![d] = [pc |-> "popped", priority |-> p,
                                               job |-> rpopValue(queueOf(p)),
                                               calls |-> 0]]
               /\ IF p = "HIGH"
                  THEN qHigh' = rpopRest(qHigh) /\ UNCHANGED qNormal
                  ELSE qNormal' = rpopRest(qNormal) /\ UNCHANGED qHigh

\* setInterval(() => this.processQueue('HIGH'), 3000) and ('NORMAL', 8000)
ProcessQueueTimer(p) ==
  /\ FreeDisp # {}
  /\ processQueueBody(CHOOSE d \in FreeDisp : TRUE, p)
  /\ UNCHANGED <<now, qRetry, userKeys, status, runpodFailures, processingJobs,
                 circuitBreakerState, metrics, timers, adm, mon, clean, remote,
                 nextId, retryDelays, admitTimes, audit, health,
                 serviceFailureTimes, lastJobData>>

\* the callback scheduled by addJob's setImmediate
ProcessQueueImmediate(d) ==
  /\ disp[d].pc = "immediate"
  /\ processQueueBody(d, disp[d].priority)
  /\ UNCHANGED <<now, qRetry, userKeys, status, runpodFailures, processingJobs,
                 circuitBreakerState, metrics, timers, adm, mon, clean, remote,
                 nextId, retryDelays, admitTimes, audit, health,
                 serviceFailureTimes, lastJobData>>

\* startJobProcessing lines 209-238: processingJobs.set, the PROCESSING status,
\* recordRunpodRequest and the POST to the remote worker.
StartJobProcessing(d) ==
  /\ disp[d].pc = "popped"
  /\ LET job == disp[d].job
     IN /\ processingJobs' = processingJobsSet(processingJobs, job, now)
        /\ status' = updateJobStatus(status, job.separationId, "PROCESSING", FALSE)
        /\ runpodRequestTimes' = recordRunpodRequest(runpodRequestTimes, now)
        /\ disp' = [disp EXCEPT ![d].pc = "submitting", ![d].calls = 1]
  /\ UNCHANGED <<now, qHigh, qNormal, qRetry, userKeys, runpodFailures,
                 circuitBreakerState, metrics, timers, adm, mon, clean, remote,
                 nextId, retryDelays, admitTimes, audit, health,
                 serviceFailureTimes, lastJobData>>

FailureCap == 6
RecordFailure(sf, t) ==
  IF ~audit \/ Len(sf) >= FailureCap THEN sf ELSE Append(sf, t)

\* runpodService.processAsynchronously lines 106-127: the POST was answered with
\* a 5xx status; the client does not throw it but calls itself again, with a
\* new POST, as long as `limit` requests have not been made.
SubmitRetried5xxUpTo(d, limit) ==
  /\ disp[d].pc = "submitting"
  /\ disp[d].job.payload
  /\ disp[d].calls < limit
  /\ disp' = [disp EXCEPT ![d].calls = @ + 1]
  /\ serviceFailureTimes' = RecordFailure(serviceFailureTimes, now)
  /\ UNCHANGED <<now, qHigh, qNormal, qRetry, userKeys, status, runpodFailures,
                 processingJobs, runpodRequestTimes, circuitBreakerState, metrics,
                 timers, adm, mon, clean, remote, nextId, retryDelays,
                 admitTimes, audit, health, lastJobData>>

SubmitRetried5xx(d) == SubmitRetried5xxUpTo(d, MaxCalls)

\* startJobProcessing lines 240-246: the remote worker accepted the job.
SubmitAccepted(d) ==
  /\ disp[d].pc = "submitting"
  /\ disp[d].job.payload
  /\ LET id == disp[d].job.separationId
     IN /\ processingJobs' = IF processingJobs[id].inMap
                             THEN [processingJobs EXCEPT ![id].runpodJobId = id]
                             ELSE processingJobs
        /\ remote' = [remote EXCEPT ![id] = "IN_PROGRESS"]
  /\ disp' = [disp EXCEPT ![d].pc = "accepted"]
  /\ UNCHANGED <<now, qHigh, qNormal, qRetry, userKeys, status, runpodFailures,
                 runpodRequestTimes, circuitBreakerState, metrics, timers, adm, mon,
                 clean, nextId, retryDelays, admitTimes, audit, health,
                 serviceFailureTimes, lastJobData>>

\* startJobProcessing lines 248-267, after Separation.findByIdAndUpdate.
SubmitRecorded(d) ==
  /\ disp[d].pc = "accepted"
  /\ LET id == disp[d].job.separationId
     IN /\ status' = updateJobStatus(status, id, "PROCESSING", FALSE)
  /\ circuitBreakerState' = IF circuitBreakerState = "HALF_OPEN" THEN "CLOSED"
                            ELSE circuitBreakerState
  /\ disp' = [disp EXCEPT ![d] = IdleDisp]
  /\ UNCHANGED <<now, qHigh, qNormal, qRetry, userKeys, runpodFailures,
                 processingJobs, runpodRequestTimes, metrics, timers, adm, mon,
                 clean, remote, nextId, retryDelays, admitTimes, audit, health,
                 serviceFailureTimes, lastJobData>>

\* Errors processAsynchronously can throw to startJobProcessing: network errors
\* whose code also appears in their message, "SOCKET_HANG_UP" for the error with
\* code ECONNRESET and message "socket hang up", and "CLIENT" for a 4xx answer,
\* a 401, an answer without job id, or a job without audio URL (lines 73-75:
\* no request is made for it).
ErrorKinds == {"ECONNRESET", "ETIMEDOUT", "ENOTFOUND", "SOCKET_HANG_UP", "CLIENT"}

\* The errors shouldRetryJob finds retryable.
RetryableErrors == {"ECONNRESET", "ETIMEDOUT", "ENOTFOUND"}

\* every submission error taken for a service error
isAnyError(e) == e \in ErrorKinds

\* handleRunpodError lines 528-530 (error.code)
isServiceError(e) == e \in {"ECONNRESET", "ETIMEDOUT", "SOCKET_HANG_UP"}

\* shouldRetryJob
shouldRetryJob(job, e) ==
  /\ ~(job.retryCount >= MaxRetries)
  /\ e \in RetryableErrors

\* addJobToRetryQueue lines 564-565
retryCountNext(job) == job.retryCount + 1
retryDelay(job) == RetryBaseDelay * Pow2(retryCountNext(job) - 1)

RetryCap == 4
RecordRetry(rd, id, delay) ==
  IF Len(rd[id]) >= RetryCap THEN rd ELSE [rd EXCEPT ![id] = Append(@, delay)]

\* startJobProcessing lines 273-291 with handleRunpodError and addJobToRetryQueue.
SubmitFailed(d, e) ==
  /\ disp[d].pc = "submitting"
  /\ disp[d].job.payload \/ e = "CLIENT"
  /\ LET job == disp[d].job
         id == job.separationId
         failures == runpodFailures.count + 1
         trip == isServiceError(e) /\ failures >= FailureThreshold
     IN /\ runpodFailures' = IF isServiceError(e)
                             THEN [count |-> failures, expireAt |-> now + FailureWindow]
                             ELSE runpodFailures
        /\ circuitBreakerState' = IF trip THEN "OPEN" ELSE circuitBreakerState
        /\ metrics' = IF trip THEN [metrics EXCEPT !.circuitBreakerTrips = @ + 1]
                      ELSE metrics
        /\ timers' = IF trip THEN Append(timers, now + CoolDown) ELSE timers
        /\ processingJobs' = processingJobsDelete(processingJobs, id)
        /\ mon' = dropReferences(mon, processingJobs, id)
        /\ IF shouldRetryJob(job, e)
           THEN /\ qRetry' = lpush(qRetry, [job EXCEPT !.retryCount = retryCountNext(job),
                                                      !.retryAt = now + retryDelay(job)])
                /\ status' = updateJobStatus(status, id, "RETRY_SCHEDULED", FALSE)
                /\ retryDelays' = RecordRetry(retryDelays, id, retryDelay(job))
           ELSE /\ status' = updateJobStatus(status, id, "FAILED", FALSE)
                /\ UNCHANGED <<qRetry, retryDelays>>
        /\ serviceFailureTimes' = IF isServiceError(e)
                                  THEN RecordFailure(serviceFailureTimes, now)
                                  ELSE serviceFailureTimes
  /\ disp' = [disp EXCEPT ![d] = IdleDisp]
  /\ UNCHANGED <<now, qHigh, qNormal, userKeys, runpodRequestTimes, adm, clean,
                 remote, nextId, admitTimes, audit, health, lastJobData>>

\* startJobProcessing lines 273-277 with handleRunpodError lines 527-533: the
\* submission failed with a service-level error and the store rejects
\* redis.incr('runpod_failures').  handleRunpodError has no try/catch, so the
\* rejection leaves the catch block of startJobProcessing at line 277 and is
\* logged by processQueue (lines 199-201).
SubmitFailedIncrRejected(d, e) ==
  /\ disp[d].pc = "submitting"
  /\ disp[d].job.payload
  /\ isServiceError(e)
  /\ serviceFailureTimes' = RecordFailure(serviceFailureTimes, now)
  /\ disp' = [disp EXCEPT ![d] = IdleDisp]
  /\ UNCHANGED <<now, qHigh, qNormal, qRetry, userKeys, status, runpodFailures,
                 processingJobs, runpodRequestTimes, circuitBreakerState, metrics,
                 timers, adm, mon, clean, remote, nextId, retryDelays, admitTimes,
                 audit, health, lastJobData>>

\* startJobProcessing lines 273-284 with handleRunpodError and addJobToRetryQueue
\* lines 563-574: the submission failed with a retryable error and the store
\* rejects redis.lpush('queue:retry', ...), after handleRunpodError and
\* processingJobs.delete have run.
SubmitFailedLpushRejected(d, e) ==
  /\ disp[d].pc = "submitting"
  /\ disp[d].job.payload
  /\ shouldRetryJob(disp[d].job, e)
  /\ LET id == disp[d].job.separationId
         failures == runpodFailures.count + 1
         trip == isServiceError(e) /\ failures >= FailureThreshold
     IN /\ runpodFailures' = IF isServiceError(e)
                             THEN [count |-> failures, expireAt |-> now + FailureWindow]
                             ELSE runpodFailures
        /\ circuitBreakerState' = IF trip THEN "OPEN" ELSE circuitBreakerState
        /\ metrics' = IF trip THEN [metrics EXCEPT !.circuitBreakerTrips = @ + 1]
                      ELSE metrics
        /\ timers' = IF trip THEN Append(timers, now + CoolDown) ELSE timers
        /\ processingJobs' = processingJobsDelete(processingJobs, id)
        /\ mon' = dropReferences(mon, processingJobs, id)
        /\ serviceFailureTimes' = IF isServiceError(e)
                                  THEN RecordFailure(serviceFailureTimes, now)
                                  ELSE serviceFailureTimes
  /\ disp' = [disp EXCEPT ![d] = IdleDisp]
  /\ UNCHANGED <<now, qHigh, qNormal, qRetry, userKeys, status, runpodRequestTimes,
                 adm, clean, remote, nextId, retryDelays, admitTimes, audit, health,
                 lastJobData>>

\* setTimeout callback of handleRunpodError lines 542-545
HalfOpenTimer ==
  /\ timers # <<>>
  /\ Head(timers) <= now
  /\ circuitBreakerState' = "HALF_OPEN"
  /\ timers' = Tail(timers)
  /\ UNCHANGED <<now, qHigh, qNormal, qRetry, userKeys, status, runpodFailures,
                 processingJobs, runpodRequestTimes, metrics, adm, disp, mon, clean,
                 remote, nextId, retryDelays, admitTimes, audit, health,
                 serviceFailureTimes, lastJobData>>

\* The remote worker finishes a job it accepted.
RemoteFinishes(id, outcome) ==
  /\ remote[id] = "IN_PROGRESS"
  /\ remote' = [remote EXCEPT ![id] = outcome]
  /\ UNCHANGED <<now, qHigh, qNormal, qRetry, userKeys, status, runpodFailures,
                 processingJobs, runpodRequestTimes, circuitBreakerState, metrics,
                 timers, adm, disp, mon, clean, nextId, retryDelays,
                 admitTimes, audit, health, serviceFailureTimes, lastJobData>>

(***************************************************************************)
(* monitorRunningJobs, handleJobCompletion, handleJobFailure,              *)
(* handleJobTimeout, performCleanup                                        *)
(***************************************************************************)
\* Array.from(this.processingJobs.values()): references to the job objects.
\* A reference is the job id, the object's startedAt, and whether the object
\* has meanwhile been removed from the map with a runpodJobId (`gone`).
processingSnapshot(pj) ==
  {[id |-> i, startedAt |-> pj[i].startedAt, gone |-> FALSE] :
     i \in {j \in JobIds : pj[j].inMap}}

\* job.runpodJobId read through a reference held by a monitor tick.
objectRunpodJobId(pj, e) == IF e.gone THEN e.id ELSE pj[e.id].runpodJobId

\* The for loop of monitorRunningJobs from the entries `rest` on: entries without
\* runpodJobId are skipped (`continue`), checkStatus is issued for the first
\* entry that has one, and with none left the tick ends.
monitorLoop(rest, pj, rem) ==
  LET pollable == {e \in rest : objectRunpodJobId(pj, e) # 0}
  IN IF pollable = {} THEN IdleMon
     ELSE LET e == CHOOSE x \in pollable : \A y \in pollable : x.id <= y.id
          IN [IdleMon EXCEPT !.pc = "polling", !.rest = {x \in rest : x.id > e.id},
                             !.job = e.id, !.startedAt = e.startedAt,
                             !.res = rem[e.id], !.calls = 1]

FreeMon == {m \in DOMAIN mon : mon[m].pc = "idle"}

\* setInterval(() => this.monitorRunningJobs(), 15000)
MonitorStart ==
  /\ FreeMon # {}
  /\ mon' = [mon EXCEPT ![CHOOSE m \in FreeMon : TRUE] =
               monitorLoop(processingSnapshot(processingJobs), processingJobs, remote)]
  /\ UNCHANGED <<now, qHigh, qNormal, qRetry, userKeys, status, runpodFailures,
                 processingJobs, runpodRequestTimes, circuitBreakerState, metrics,
                 timers, adm, disp, clean, remote, nextId, retryDelays, admitTimes,
                 audit, health, serviceFailureTimes, lastJobData>>

\* runpodService.checkStatus lines 219-224: a 5xx answer is retried by the
\* client itself, with a new GET.
PollRetried5xx(m) ==
  /\ mon[m].pc = "polling"
  /\ mon[m].calls < MaxCalls
  /\ mon' = [mon EXCEPT ![m].calls = @ + 1, ![m].res = remote[mon[m].job]]
  /\ UNCHANGED <<now, qHigh, qNormal, qRetry, userKeys, status, runpodFailures,
                 processingJobs, runpodRequestTimes, circuitBreakerState, metrics,
                 timers, adm, disp, clean, remote, nextId, retryDelays, admitTimes,
                 audit, health, serviceFailureTimes, lastJobData>>

\* monitorRunningJobs lines 305-313: checkStatus answered.  COMPLETED enters
\* handleJobCompletion, FAILED handleJobFailure (each up to its first await),
\* anything else runs updateJobProgress and the loop goes on.
PollAnswered(m) ==
  /\ mon[m].pc = "polling"
  /\ LET id == mon[m].job
         res == mon[m].res
     IN CASE res = "COMPLETED" /\ processingJobs[id].inMap ->
               /\ metrics' = [metrics EXCEPT !.totalProcessed = @ + 1]
               /\ mon' = [mon EXCEPT ![m].pc = "completing",
                                     ![m].user = processingJobs[id].userId]
               /\ UNCHANGED status
          [] res = "COMPLETED" /\ ~processingJobs[id].inMap ->
               /\ mon' = [mon EXCEPT ![m] = monitorLoop(mon[m].rest, processingJobs, remote)]
               /\ UNCHANGED <<metrics, status>>
          [] res = "FAILED" ->
               /\ metrics' = [metrics EXCEPT !.totalFailed = @ + 1]
               /\ mon' = [mon EXCEPT ![m].pc = "failing",
                                     ![m].had = processingJobs[id].inMap,
                                     ![m].user = processingJobs[id].userId]
               /\ UNCHANGED status
          [] OTHER ->
               /\ status' = updateJobStatus(status, id, "PROCESSING", FALSE)
               /\ mon' = [mon EXCEPT ![m] = monitorLoop(mon[m].rest, processingJobs, remote)]
               /\ UNCHANGED metrics
  /\ UNCHANGED <<now, qHigh, qNormal, qRetry, userKeys, runpodFailures,
                 processingJobs, runpodRequestTimes, circuitBreakerState, timers, adm,
                 disp, clean, remote, nextId, retryDelays, admitTimes, audit, health,
                 serviceFailureTimes, lastJobData>>

\* monitorRunningJobs lines 315-321: checkStatus threw; a job older than 45
\* minutes enters handleJobTimeout (up to its first await).
PollThrew(m) ==
  /\ mon[m].pc = "polling"
  /\ LET id == mon[m].job
     IN IF now - mon[m].startedAt > JobTimeoutAge
        THEN /\ status' = updateJobStatus(status, id, "TIMEOUT", FALSE)
             /\ mon' = [mon EXCEPT ![m].pc = "timingOut",
                                   ![m].had = processingJobs[id].inMap,
                                   ![m].user = processingJobs[id].userId]
        ELSE /\ mon' = [mon EXCEPT ![m] = monitorLoop(mon[m].rest, processingJobs, remote)]
             /\ UNCHANGED status
  /\ UNCHANGED <<now, qHigh, qNormal, qRetry, userKeys, runpodFailures,
                 processingJobs, runpodRequestTimes, circuitBreakerState, metrics,
                 timers, adm, disp, clean, remote, nextId, retryDelays, admitTimes,
                 audit, health, serviceFailureTimes, lastJobData>>

\* The end of handleJobCompletion, handleJobFailure and handleJobTimeout in
\* monitor tick m: processingJobs.delete, decrementUserConcurrent when the
\* handler had found the job in the map, and the loop goes on.
monitorRelease(m, decrement) ==
  LET id == mon[m].job
      pj == processingJobsDelete(processingJobs, id)
      mn == dropReferences(mon, processingJobs, id)
  IN /\ processingJobs' = pj
     /\ userKeys' = IF decrement THEN decrementUserConcurrent(userKeys, mon[m].user)
                    ELSE userKeys
     /\ mon' = [mn EXCEPT ![m] = monitorLoop(mn[m].rest, pj, remote)]

\* handleJobCompletion lines 352-364, after Separation.findByIdAndUpdate.
MonitorCompleted(m) ==
  /\ mon[m].pc = "completing"
  /\ status' = updateJobStatus(status, mon[m].job, "COMPLETE", TRUE)
  /\ monitorRelease(m, TRUE)
  /\ UNCHANGED <<now, qHigh, qNormal, qRetry, runpodFailures, runpodRequestTimes,
                 circuitBreakerState, metrics, timers, adm, disp, clean, remote,
                 nextId, retryDelays, admitTimes, audit, health,
                 serviceFailureTimes, lastJobData>>

MonitorFailedRetried(m) ==
  /\ mon[m].pc = "failing"
  /\ status' = updateJobStatus(status, mon[m].job, "RETRY_SCHEDULED", FALSE)
  /\ qRetry' = lpush(qRetry, [NewJobData(mon[m].job, mon[m].user, "url") EXCEPT
                                !.priority = "NORMAL", !.retryCount = 1,
                                !.retryAt = now + RetryBaseDelay])
  /\ monitorRelease(m, mon[m].had)
  /\ UNCHANGED <<now, qHigh, qNormal, runpodFailures, runpodRequestTimes,
                 circuitBreakerState, metrics, timers, adm, disp, clean, remote,
                 nextId, retryDelays, admitTimes, audit, health,
                 serviceFailureTimes, lastJobData>>

\* handleJobFailure lines 385-396, after Separation.findByIdAndUpdate.
MonitorFailed(m) ==
  /\ mon[m].pc = "failing"
  /\ status' = updateJobStatus(status, mon[m].job, "FAILED", FALSE)
  /\ monitorRelease(m, mon[m].had)
  /\ UNCHANGED <<now, qHigh, qNormal, qRetry, runpodFailures, runpodRequestTimes,
                 circuitBreakerState, metrics, timers, adm, disp, clean, remote,
                 nextId, retryDelays, admitTimes, audit, health,
                 serviceFailureTimes, lastJobData>>

\* handleJobTimeout lines 648-654 called from the monitor, after its status write.
MonitorTimedOut(m) ==
  /\ mon[m].pc = "timingOut"
  /\ monitorRelease(m, mon[m].had)
  /\ UNCHANGED <<now, qHigh, qNormal, qRetry, status, runpodFailures,
                 runpodRequestTimes, circuitBreakerState, metrics, timers, adm, disp,
                 clean, remote, nextId, retryDelays, admitTimes, audit, health,
                 serviceFailureTimes, lastJobData>>

\* performCleanup lines 663-669
staleJobs(pj, t) == {i \in JobIds : pj[i].inMap /\ t - pj[i].startedAt > StaleJobAge}

MinOf(S) == CHOOSE x \in S : \A y \in S : x <= y

\* handleJobTimeout lines 642-646 for the first id of `ids`, called by performCleanup.
cleanupTimeout(ids, pj) ==
  LET id == MinOf(ids)
  IN [pc |-> "timingOut", rest |-> ids \ {id}, job |-> id, had |-> pj[id].inMap,
      user |-> pj[id].userId]

\* setInterval(() => this.performCleanup(), 300000): the stale jobs are
\* collected and handleJobTimeout is entered for the first one.
CleanupStart ==
  /\ clean.pc = "idle"
  /\ LET stale == staleJobs(processingJobs, now)
     IN IF stale = {}
        THEN UNCHANGED <<clean, status>>
        ELSE /\ status' = updateJobStatus(status, MinOf(stale), "TIMEOUT", FALSE)
             /\ clean' = cleanupTimeout(stale, processingJobs)
  /\ UNCHANGED <<now, qHigh, qNormal, qRetry, userKeys, runpodFailures,
                 processingJobs, runpodRequestTimes, circuitBreakerState, metrics,
                 timers, adm, disp, mon, remote, nextId, retryDelays, admitTimes,
                 audit, health, serviceFailureTimes, lastJobData>>

\* handleJobTimeout lines 648-654 called from performCleanup, then the next
\* stale job id of the list.
CleanupTimedOut ==
  /\ clean.pc = "timingOut"
  /\ LET id == clean.job
         pj == processingJobsDelete(processingJobs, id)
     IN /\ processingJobs' = pj
        /\ mon' = dropReferences(mon, processingJobs, id)
        /\ userKeys' = IF clean.had THEN decrementUserConcurrent(userKeys, clean.user)
                       ELSE userKeys
        /\ IF clean.rest = {}
           THEN /\ clean' = IdleClean
                /\ UNCHANGED status
           ELSE /\ status' = updateJobStatus(status, MinOf(clean.rest), "TIMEOUT", FALSE)
                /\ clean' = cleanupTimeout(clean.rest, pj)
  /\ UNCHANGED <<now, qHigh, qNormal, qRetry, runpodFailures, runpodRequestTimes,
                 circuitBreakerState, metrics, timers, adm, disp, remote, nextId,
                 retryDelays, admitTimes, audit, health, serviceFailureTimes, lastJobData>>

(***************************************************************************)
(* processRetryQueue                                                       *)
(***************************************************************************)
ProcessRetryQueueAnyTime ==
  /\ adm[RetryCtx].pc = "idle"
  /\ qRetry # <<>>
  /\ LET job == rpopValue(qRetry)
     IN /\ qRetry' = rpopRest(qRetry)
        /\ addJobEnter(RetryCtx, [job EXCEPT !.retryAt = 0])
        /\ lastJobData' = RecordCall([job EXCEPT !.retryAt = 0])
  /\ UNCHANGED <<now, qHigh, qNormal, runpodFailures, processingJobs,
                 runpodRequestTimes, circuitBreakerState, metrics, timers, disp, mon,
                 clean, remote, nextId, retryDelays, admitTimes, audit, health,
                 serviceFailureTimes>>

\* setInterval(() => this.processRetryQueue(), 120000): rpop; a due entry is
\* re-submitted through addJob, any other is pushed back.
ProcessRetryQueue ==
  /\ adm[RetryCtx].pc = "idle"
  /\ qRetry # <<>>
  /\ LET job == rpopValue(qRetry)
     IN IF now >= job.retryAt
        THEN /\ qRetry' = rpopRest(qRetry)
             /\ addJobEnter(RetryCtx, [job EXCEPT !.retryAt = 0])
             /\ lastJobData' = RecordCall([job EXCEPT !.retryAt = 0])
        ELSE /\ qRetry' = lpush(rpopRest(qRetry), job)
             /\ UNCHANGED <<userKeys, status, adm, lastJobData>>
  /\ UNCHANGED <<now, qHigh, qNormal, runpodFailures, processingJobs,
                 runpodRequestTimes, circuitBreakerState, metrics, timers, disp, mon,
                 clean, remote, nextId, retryDelays, admitTimes, audit, health,
                 serviceFailureTimes>>

(***************************************************************************)
(* healthCheck                                                             *)
(***************************************************************************)
\* every breaker state but OPEN taken for healthy
runpodCheckLenient(state) == state # "OPEN"

\* healthCheck line 733: runpod: this.circuitBreakerState === 'CLOSED'
runpodCheck(state) == state = "CLOSED"

\* healthCheck line 745
healthyOf(checks) ==
  checks.redis /\ checks.runpod /\ checks.queueSize < MAX_QUEUE_SIZE

\* healthCheck lines 729-735: the checks object is being built; the breaker
\* state is read and getTotalQueueSize is called.
HealthCheckCall ==
  /\ health.pc \in {"idle", "returned"}
  /\ health' = [IdleHealth EXCEPT !.pc = "size",
                                  !.runpod = runpodCheck(circuitBreakerState)]
  /\ UNCHANGED <<now, qHigh, qNormal, qRetry, userKeys, status, runpodFailures,
                 processingJobs, runpodRequestTimes, circuitBreakerState, metrics,
                 timers, adm, disp, mon, clean, remote, nextId, retryDelays,
                 admitTimes, audit, serviceFailureTimes, lastJobData>>

\* healthCheck lines 734 and 755-761: getTotalQueueSize answers, or one of its
\* llen calls fails and the outer catch returns healthy: false.
HealthCheckSize(answered) ==
  /\ health.pc = "size"
  /\ health' = IF answered
                THEN [health EXCEPT !.pc = "ping", !.queueSize = getTotalQueueSize]
                ELSE [health EXCEPT !.pc = "returned", !.failed = TRUE,
                                    !.healthy = FALSE]
  /\ UNCHANGED <<now, qHigh, qNormal, qRetry, userKeys, status, runpodFailures,
                 processingJobs, runpodRequestTimes, circuitBreakerState, metrics,
                 timers, adm, disp, mon, clean, remote, nextId, retryDelays,
                 admitTimes, audit, serviceFailureTimes, lastJobData>>

\* healthCheck lines 738-752: redis.ping() answers or throws; healthy is
\* computed and returned.
HealthCheckPing(answered) ==
  /\ health.pc = "ping"
  /\ LET checks == [health EXCEPT !.redis = answered]
     IN health' = [checks EXCEPT !.pc = "returned", !.healthy = healthyOf(checks)]
  /\ UNCHANGED <<now, qHigh, qNormal, qRetry, userKeys, status, runpodFailures,
                 processingJobs, runpodRequestTimes, circuitBreakerState, metrics,
                 timers, adm, disp, mon, clean, remote, nextId, retryDelays,
                 admitTimes, audit, serviceFailureTimes, lastJobData>>

HealthSteps ==
  \/ HealthCheckCall
  \/ \E answered \in BOOLEAN : HealthCheckSize(answered)
  \/ \E answered \in BOOLEAN : HealthCheckPing(answered)

(***************************************************************************)
(* Arrivals without bound.  The model has finitely many job ids and user   *)
(* names: the id of a job that has completed and that nothing refers to    *)
(* any more, and the name of a user none of whose jobs is in the system,   *)
(* come to stand for a new job and a new user.                             *)
(***************************************************************************)
\* Nothing in the service refers to job id i.
NotHeld(i) ==
  /\ i \notin IdsOf(qHigh) \cup IdsOf(qNormal) \cup IdsOf(qRetry)
  /\ ~processingJobs[i].inMap
  /\ \A a \in DOMAIN adm : adm[a].job.separationId # i
  /\ \A d \in DOMAIN disp : disp[d].job.separationId # i
  /\ \A m \in DOMAIN mon : mon[m].job # i /\ \A e \in mon[m].rest : e.id # i
  /\ clean.job # i /\ i \notin clean.rest

\* No job of user u is in the system.
UserGone(u) ==
  /\ \A q \in {qHigh, qNormal, qRetry} : \A k \in 1..Len(q) : q[k].userId # u
  /\ \A i \in JobIds : processingJobs[i].inMap => processingJobs[i].userId # u
  /\ \A a \in DOMAIN adm : adm[a].pc # "idle" => UserIdOf(adm[a].job.userId) # u
  /\ \A d \in DOMAIN disp : disp[d].pc \notin {"idle", "immediate"}
                               => disp[d].job.userId # u
  /\ \A m \in DOMAIN mon : mon[m].pc # "idle" => mon[m].user # u
  /\ clean.pc = "idle"

\* The completed job i is followed no further: its status key and the remote
\* worker's record of it play no part in what the service does from here on,
\* and the job is taken out of the count of processed jobs.
ForgetJob(i) ==
  /\ remote[i] = "COMPLETED"
  /\ status[i].status = "COMPLETE"
  /\ NotHeld(i)
  /\ metrics.totalProcessed > 0
  /\ status' = [status EXCEPT ![i] = NoStatus]
  /\ remote' = [remote EXCEPT ![i] = "NONE"]
  /\ retryDelays' = [retryDelays EXCEPT ![i] = <<>>]
  /\ metrics' = [metrics EXCEPT !.totalProcessed = @ - 1]
  /\ UNCHANGED <<now, qHigh, qNormal, qRetry, userKeys, runpodFailures,
                 processingJobs, runpodRequestTimes, circuitBreakerState, timers,
                 adm, disp, mon, clean, nextId, admitTimes, audit, health,
                 serviceFailureTimes, lastJobData>>

\* The user u, none of whose jobs is left, is followed no further: the next
\* caller of that name is a new user, who has no key in the store.
ForgetUser(u) ==
  /\ UserGone(u)
  /\ userKeys[u] # NoUserKey
  /\ userKeys' = [userKeys EXCEPT ![u] = NoUserKey]
  /\ UNCHANGED <<now, qHigh, qNormal, qRetry, status, runpodFailures,
                 processingJobs, runpodRequestTimes, circuitBreakerState, metrics,
                 timers, adm, disp, mon, clean, remote, nextId, retryDelays,
                 admitTimes, audit, health, serviceFailureTimes, lastJobData>>

\* The ids that stand for new jobs.
ForgottenIds ==
  {i \in JobIds : i < nextId /\ status[i] = NoStatus /\ remote[i] = "NONE" /\ NotHeld(i)}

\* An HTTP handler calls addJob for a new job of a new user: the job's id is a
\* forgotten one and the user has no key in the store.
AddJobCallAgain(users, storages) ==
  /\ FreeAdd # {}
  /\ ForgottenIds # {}
  /\ \E u \in users, st \in storages :
       LET job == NewJobData(MinOf(ForgottenIds), u, st)
       IN /\ userKeys[UserIdOf(u)] = NoUserKey
          /\ addJobEnter(CHOOSE a \in FreeAdd : TRUE, job)
          /\ lastJobData' = RecordCall(job)
  /\ UNCHANGED <<now, qHigh, qNormal, qRetry, runpodFailures, processingJobs,
                 runpodRequestTimes, circuitBreakerState, metrics, timers, disp, mon,
                 clean, remote, nextId, retryDelays, admitTimes, audit, health,
                 serviceFailureTimes>>

(***************************************************************************)
(* Time                                                                    *)
(***************************************************************************)
expireFailures(rf, t) ==
  IF rf.expireAt # 0 /\ rf.expireAt <= t THEN [count |-> 0, expireAt |-> 0] ELSE rf

\* The instants at which the model looks at the system: the first minutes, the
\* end of a cool-down that began at the start, and the first instant at which a
\* job started in those minutes counts as stale.
Instants == {StartTime + k : k \in 0..MaxTime}
              \cup {StartTime + CoolDown, StartTime + MaxTime + StaleJobAge + 1}

\* Time passes until instant t.  A pending setTimeout callback runs when it is
\* due, the store drops the keys whose time to live has run out, and the
\* every-minute resetRateLimits timer has filtered this.runpodRequestTimes.
AdvanceTime(t) ==
  /\ t > now
  /\ \A i \in 1..Len(timers) : t <= timers[i]
  /\ now' = t
  /\ runpodFailures' = expireFailures(runpodFailures, t)
  /\ runpodRequestTimes' = pruneRequestTimes(runpodRequestTimes, t)
  /\ UNCHANGED <<qHigh, qNormal, qRetry, userKeys, status, processingJobs,
                 circuitBreakerState, metrics, timers, adm, disp, mon, clean, remote,
                 nextId, retryDelays, admitTimes, audit, health,
                 serviceFailureTimes, lastJobData>>

\* Time passes until instant t while no addJob and no processQueue invocation
\* is suspended at an await: every invocation ends within the minute in which
\* it began.
QuietAdvanceTime(t) ==
  /\ \A a \in DOMAIN adm : adm[a].pc = "idle"
  /\ \A d \in DOMAIN disp : disp[d].pc = "idle"
  /\ AdvanceTime(t)

\* More than an hour passes while the service is at rest (no invocation is
\* suspended, the processing set and the RETRY list are empty, no cool-down is
\* pending), and the clock's origin moves with it: `now` keeps its value and
\* every stored time is HourWindow + 1 minutes older.  The request times are
\* then filtered out by resetRateLimits, the failure counter has expired, and
\* every user's hour window has run out (the user keys live for two hours
\* after their last update, so they are still there).
RebasedHour ==
  /\ \A a \in DOMAIN adm : adm[a].pc = "idle"
  /\ \A d \in DOMAIN disp : disp[d].pc = "idle"
  /\ \A m \in DOMAIN mon : mon[m].pc = "idle"
  /\ clean.pc = "idle"
  /\ processingSize(processingJobs) = 0
  /\ qRetry = <<>>
  /\ timers = <<>>
  /\ runpodRequestTimes' = <<>>
  /\ runpodFailures' = [count |-> 0, expireAt |-> 0]
  /\ userKeys' = [u \in Users |->
                    IF userKeys[u] = NoUserKey THEN NoUserKey
                    ELSE [userKeys[u] EXCEPT !.lastHourReset = now - HourWindow - 1]]
  /\ UNCHANGED <<now, qHigh, qNormal, qRetry, status, processingJobs,
                 circuitBreakerState, metrics, timers, adm, disp, mon, clean, remote,
                 nextId, retryDelays, admitTimes, audit, health,
                 serviceFailureTimes, lastJobData>>

(***************************************************************************)
(* The scheduler: the operations, freely interleaved.  `limit` bounds the  *)
(* external addJob calls, `users` and `storages` are their inputs, `errors`*)
(* the ways a submission can fail.                                         *)
(***************************************************************************)
AdmissionSteps(limit, users, storages) ==
  \/ AddJobCall(limit, users, storages)
  \/ \E a \in DOMAIN adm : AddJobAfterReset(a)
  \/ \E a \in DOMAIN adm : AddJobCapacity(a)
  \/ \E a \in DOMAIN adm : AddJobQueued(a)

DispatchSteps ==
  \/ \E p \in Priorities : ProcessQueueTimer(p)
  \/ \E d \in DOMAIN disp : ProcessQueueImmediate(d)
  \/ \E d \in DOMAIN disp : StartJobProcessing(d)

SubmitSteps(errors) ==
  \/ \E d \in DOMAIN disp : SubmitAccepted(d)
  \/ \E d \in DOMAIN disp : SubmitRecorded(d)
  \/ \E d \in DOMAIN disp, e \in errors : SubmitFailed(d, e)

MonitorSteps ==
  \/ \E i \in JobIds, o \in {"COMPLETED", "FAILED"} : RemoteFinishes(i, o)
  \/ MonitorStart
  \/ \E m \in DOMAIN mon : PollAnswered(m)
  \/ \E m \in DOMAIN mon : PollThrew(m)
  \/ \E m \in DOMAIN mon : MonitorCompleted(m)
  \/ \E m \in DOMAIN mon : MonitorFailed(m)

LongSteps ==
  \/ HalfOpenTimer
  \/ \E m \in DOMAIN mon : MonitorTimedOut(m)
  \/ CleanupStart
  \/ CleanupTimedOut
  \/ \E d \in DOMAIN disp : SubmitRetried5xx(d)
  \/ \E m \in DOMAIN mon : PollRetried5xx(m)

Minutes == {StartTime + k : k \in 1..MaxTime}

(***************************************************************************)
(* The pipeline scenario: one user's jobs go through admission, dispatch,  *)
(* submission, monitoring and retry, with two overlapping dispatcher       *)
(* ticks, during the first minutes after the start.                        *)
(***************************************************************************)
Init == InitWith({"a1"}, {"d1", "d2"}, {"m1"}, 0, FALSE)

Next ==
  \/ AdmissionSteps(PipelineJobs, {"u1"}, StorageTypes)
  \/ DispatchSteps
  \/ SubmitSteps(ErrorKinds)
  \/ MonitorSteps
  \/ ProcessRetryQueue
  \/ \E t \in Minutes : AdvanceTime(t)

Spec == Init /\ [][Next]_vars

(***************************************************************************)
(* The long-running scenario: every operation, one job, over the instants  *)
(* at which cool-downs end and jobs time out.  The store, which outlives   *)
(* the process, holds the failure counter of four recent failures.         *)
(***************************************************************************)
InitLong == InitWith({"a1"}, {"d1"}, {"m1"}, FailureThreshold - 1, FALSE)

NextLong ==
  \/ AdmissionSteps(LongJobs, {"u1"}, StorageTypes)
  \/ DispatchSteps
  \/ SubmitSteps(ErrorKinds)
  \/ MonitorSteps
  \/ LongSteps
  \/ ProcessRetryQueue
  \/ \E t \in Instants : AdvanceTime(t)

SpecLong == InitLong /\ [][NextLong]_vars

(***************************************************************************)
(* The circuit breaker scenario: admission, dispatch and submissions that  *)
(* time out, after four recent failures recorded in the store.             *)
(***************************************************************************)
InitBreaker == InitWith({"a1"}, {"d1"}, {}, FailureThreshold - 1, FALSE)

NextBreaker ==
  \/ AdmissionSteps(BreakerJobs, {"u1"}, StorageTypes)
  \/ DispatchSteps
  \/ SubmitSteps({"ETIMEDOUT"})
  \/ HalfOpenTimer
  \/ ProcessRetryQueue
  \/ \E t \in Instants : AdvanceTime(t)

SpecBreaker == InitBreaker /\ [][NextBreaker]_vars

(***************************************************************************)
(* The admission scenario: overlapping HTTP requests of one user call      *)
(* addJob, and nothing is dispatched meanwhile.                            *)
(***************************************************************************)
InitAdmit == InitWith({"a1", "a2", "a3", "a4", "a5", "a6"}, {}, {}, 0, TRUE)

NextAdmit == AdmissionSteps(MaxJobs, {"u1"}, {"file"})

SpecAdmit == InitAdmit /\ [][NextAdmit]_vars

(***************************************************************************)
(* The dispatch scenario: URL jobs of a signed-in and of an anonymous      *)
(* caller, and three overlapping dispatcher ticks.                         *)
(***************************************************************************)
InitDispatch == InitWith({"a1"}, {"d1", "d2", "d3"}, {}, 0, FALSE)

NextDispatch ==
  \/ AdmissionSteps(DispatchJobs, InputUsers, {"url"})
  \/ DispatchSteps
  \/ SubmitSteps({"CLIENT"})
  \/ \E t \in Minutes : AdvanceTime(t)

SpecDispatch == InitDispatch /\ [][NextDispatch]_vars

(***************************************************************************)
(* The retry scenario: every submission of a job fails with a retryable    *)
(* error, over the minutes in which its retries fall due.                  *)
(***************************************************************************)
InitRetry == InitWith({"a1"}, {"d1"}, {}, 0, FALSE)

NextRetry ==
  \/ AdmissionSteps(RetryJobs, InputUsers, StorageTypes)
  \/ DispatchSteps
  \/ \E d \in DOMAIN disp, e \in RetryableErrors : SubmitFailed(d, e)
  \/ ProcessRetryQueue
  \/ \E t \in {StartTime + k : k \in 1..RetryTime} : AdvanceTime(t)

SpecRetry == InitRetry /\ [][NextRetry]_vars

(***************************************************************************)
(* The monitoring scenario: one job and two overlapping monitor ticks.     *)
(***************************************************************************)
InitMonitor == InitWith({"a1"}, {"d1"}, {"m1", "m2"}, 0, FALSE)

NextMonitor ==
  \/ AdmissionSteps(MonitorJobs, {"u1"}, StorageTypes)
  \/ DispatchSteps
  \/ SubmitSteps(ErrorKinds)
  \/ MonitorSteps
  \/ ProcessRetryQueue
  \/ \E t \in Minutes : AdvanceTime(t)

SpecMonitor == InitMonitor /\ [][NextMonitor]_vars

(***************************************************************************)
(* The completion scenario: a job is admitted into the empty system, the   *)
(* remote worker accepts its submission and completes it.                  *)
(***************************************************************************)
InitScenario == InitWith({"a1"}, {"d1"}, {"m1"}, 0, FALSE)

NextScenario ==
  \/ AdmissionSteps(ScenarioJobs, InputUsers, StorageTypes)
  \/ DispatchSteps
  \/ \E d \in DOMAIN disp : SubmitAccepted(d)
  \/ \E d \in DOMAIN disp : SubmitRecorded(d)
  \/ \E i \in JobIds : RemoteFinishes(i, "COMPLETED")
  \/ MonitorStart
  \/ \E m \in DOMAIN mon : PollAnswered(m)
  \/ \E m \in DOMAIN mon : MonitorCompleted(m)

SpecScenario == InitScenario /\ [][NextScenario]_vars

(***************************************************************************)
(* The tripping scenario: the breaker is CLOSED and the failure counter    *)
(* empty; submissions are answered with 5xx statuses, or fail with a       *)
(* connection reset or a timeout.                                          *)
(***************************************************************************)
InitTrip == InitWith({"a1"}, {"d1"}, {}, 0, TRUE)

NextTrip ==
  \/ AdmissionSteps(TripJobs, {"u1"}, {"url"})
  \/ DispatchSteps
  \/ SubmitSteps({"ECONNRESET", "ETIMEDOUT"})
  \/ \E d \in DOMAIN disp : SubmitRetried5xxUpTo(d, TripCalls)
  \/ \E t \in Minutes : AdvanceTime(t)

SpecTrip == InitTrip /\ [][NextTrip]_vars

(***************************************************************************)
(* The probe scenario: URL jobs of a signed-in and of an anonymous caller, *)
(* two overlapping dispatcher ticks and submissions that time out, after   *)
(* four recent failures recorded in the store.  Every invocation ends      *)
(* within the minute in which it began.                                    *)
(***************************************************************************)
InitProbe == InitWith({"a1"}, {"d1", "d2"}, {}, FailureThreshold - 1, FALSE)

NextProbe ==
  \/ AdmissionSteps(ProbeJobs, InputUsers, {"url"})
  \/ DispatchSteps
  \/ SubmitSteps({"ETIMEDOUT"})
  \/ HalfOpenTimer
  \/ ProcessRetryQueue
  \/ \E t \in Instants : QuietAdvanceTime(t)

SpecProbe == InitProbe /\ [][NextProbe]_vars

(***************************************************************************)
(* The validation scenario: callers, signed in or anonymous, call addJob   *)
(* one after the other with URL jobs that have or lack the audio URL, or   *)
(* that have no separationId, while submissions time out, find no host or  *)
(* are refused, after four recent failures recorded in the store.          *)
(***************************************************************************)
InitValidate == InitWith({"a1"}, {"d1"}, {}, FailureThreshold - 1, TRUE)

NextValidate ==
  \/ AddJobCallWith(ValidateJobs, InputUsers, {"url"}, BOOLEAN)
  \/ AddJobWithoutId(InputUsers, {"url"})
  \/ \E a \in DOMAIN adm : AddJobAfterReset(a)
  \/ \E a \in DOMAIN adm : AddJobCapacity(a)
  \/ \E a \in DOMAIN adm : AddJobQueued(a)
  \/ DispatchSteps
  \/ \E d \in DOMAIN disp, e \in {"ETIMEDOUT", "ENOTFOUND", "CLIENT"} :
       SubmitFailed(d, e)

SpecValidate == InitValidate /\ [][NextValidate]_vars

(***************************************************************************)
(* The priority scenario: uploaded, locally stored and URL jobs of one     *)
(* user, whose submissions fail with retryable errors, over the minutes in *)
(* which their retries fall due.                                           *)
(***************************************************************************)
InitPriority == InitWith({"a1"}, {"d1"}, {}, 0, TRUE)

NextPriority ==
  \/ AdmissionSteps(PriorityJobs, {"u1"}, AllStorageTypes)
  \/ DispatchSteps
  \/ \E d \in DOMAIN disp, e \in RetryableErrors : SubmitFailed(d, e)
  \/ ProcessRetryQueue
  \/ \E t \in {StartTime + k : k \in 1..RetryTime} : QuietAdvanceTime(t)

SpecPriority == InitPriority /\ [][NextPriority]_vars

(***************************************************************************)
(* The timeout scenario: the remote worker accepts a job and never reports *)
(* a terminal state; polls are answered or fail, and the clock is followed *)
(* to the first instants at which the job is older than 45 and than 60     *)
(* minutes.                                                                *)
(***************************************************************************)
InitTimeout == InitWith({"a1"}, {"d1"}, {"m1"}, 0, FALSE)

TimeoutInstants == {StartTime + JobTimeoutAge + 1, StartTime + StaleJobAge + 1}

NextTimeout ==
  \/ AdmissionSteps(TimeoutJobs, InputUsers, StorageTypes)
  \/ DispatchSteps
  \/ \E d \in DOMAIN disp : SubmitAccepted(d)
  \/ \E d \in DOMAIN disp : SubmitRecorded(d)
  \/ MonitorStart
  \/ \E m \in DOMAIN mon : PollAnswered(m)
  \/ \E m \in DOMAIN mon : PollThrew(m)
  \/ \E m \in DOMAIN mon : MonitorTimedOut(m)
  \/ CleanupStart
  \/ CleanupTimedOut
  \/ \E t \in TimeoutInstants : AdvanceTime(t)

SpecTimeout == InitTimeout /\ [][NextTimeout]_vars

(***************************************************************************)
(* The flood scenario: uploaded-file jobs of ever new users keep arriving  *)
(* while URL jobs wait; the remote worker accepts and completes every job, *)
(* and hour after hour passes.  Every timer keeps firing, every        *)
(* suspended invocation resumes, and the remote worker finishes every job  *)
(* it has accepted; callers are under no obligation to call.               *)
(***************************************************************************)
InitFlood == InitWith({"a1"}, {"d1"}, {"m1"}, 0, FALSE)

FloodSteps ==
  \/ AddJobCallAgain({"u1"}, {"file"})
  \/ \E i \in JobIds : ForgetJob(i)
  \/ \E u \in Users : ForgetUser(u)
  \/ \E d \in DOMAIN disp : SubmitAccepted(d)
  \/ \E d \in DOMAIN disp : SubmitRecorded(d)
  \/ \E i \in JobIds : RemoteFinishes(i, "COMPLETED")
  \/ MonitorStart
  \/ \E m \in DOMAIN mon : PollAnswered(m)
  \/ \E m \in DOMAIN mon : MonitorCompleted(m)
  \/ RebasedHour

NextFlood ==
  \/ AdmissionSteps(FloodJobs, {"null"}, {"url"})
  \/ DispatchSteps
  \/ FloodSteps

\* A processQueue invocation of class p that begins in this state pops a job.
TickPops(p) ==
  /\ canProcessMoreJobs(processingJobs, p)
  /\ canMakeRunpodRequest(runpodRequestTimes, now)
  /\ queueOf(p) # <<>>

\* The setInterval timer of class p fires again and again: time and again a
\* tick pops a job, or the state is one in which a tick returns without
\* popping.
TimerKeepsFiring(p) == []<>~TickPops(p) \/ []<><<ProcessQueueTimer(p)>>_vars

FairFlood ==
  /\ \A p \in Priorities : TimerKeepsFiring(p)
  /\ \A d \in {"d1"} :
       /\ WF_vars(ProcessQueueImmediate(d))
       /\ WF_vars(StartJobProcessing(d))
       /\ WF_vars(SubmitAccepted(d))
       /\ WF_vars(SubmitRecorded(d))
  /\ \A a \in {"a1"} :
       /\ WF_vars(AddJobAfterReset(a))
       /\ WF_vars(AddJobCapacity(a))
       /\ WF_vars(AddJobQueued(a))
  /\ \A i \in JobIds : WF_vars(RemoteFinishes(i, "COMPLETED"))
  /\ WF_vars(MonitorStart)
  /\ \A m \in {"m1"} : WF_vars(PollAnswered(m)) /\ WF_vars(MonitorCompleted(m))
  /\ WF_vars(RebasedHour)

SpecFlood == InitFlood /\ [][NextFlood]_vars /\ FairFlood

(***************************************************************************)
(* The fault scenario: callers pass job data, job data without id, or      *)
(* null; submissions fail.                                                 *)
(***************************************************************************)
InitFaults == InitWith({"a1"}, {"d1"}, {"m1"}, 0, FALSE)

NextFaults ==
  \/ AdmissionSteps(FaultJobs, InputUsers, {"url"})
  \/ AddJobWithoutId(InputUsers, {"url"})
  \/ AddJobNull
  \/ \E a \in DOMAIN adm : AddJobThrown(a)
  \/ DispatchSteps
  \/ SubmitSteps({"ETIMEDOUT", "CLIENT"})

SpecFaults == InitFaults /\ [][NextFaults]_vars

(***************************************************************************)
(* The health scenario: URL jobs of a signed-in and of an anonymous caller *)
(* fill the lists, submissions time out after four recent failures, the    *)
(* breaker opens and half-opens, and healthCheck is called again and again.*)
(***************************************************************************)
InitHealth == InitWith({"a1"}, {"d1"}, {}, FailureThreshold - 1, FALSE)

NextHealth ==
  \/ AdmissionSteps(HealthJobs, InputUsers, {"url"})
  \/ DispatchSteps
  \/ SubmitSteps({"ETIMEDOUT"})
  \/ HalfOpenTimer
  \/ AdvanceTime(StartTime + CoolDown)
  \/ HealthSteps

SpecHealth == InitHealth /\ [][NextHealth]_vars

(***************************************************************************)
(* The store failure scenario: URL jobs are dispatched, submissions time   *)
(* out, and while a failed submission is being handled the store rejects   *)
(* the increment of the failure counter or the push onto the RETRY list;   *)
(* monitor ticks run in between.                                           *)
(***************************************************************************)
InitStore == InitWith({"a1"}, {"d1"}, {"m1"}, 0, FALSE)

NextStore ==
  \/ AdmissionSteps(StoreJobs, {"u1"}, {"url"})
  \/ DispatchSteps
  \/ SubmitSteps({"ETIMEDOUT"})
  \/ \E d \in DOMAIN disp : SubmitFailedIncrRejected(d, "ETIMEDOUT")
  \/ \E d \in DOMAIN disp : SubmitFailedLpushRejected(d, "ETIMEDOUT")
  \/ MonitorSteps

SpecStore == InitStore /\ [][NextStore]_vars

(***************************************************************************)
(* Properties                                                              *)
(***************************************************************************)
\* Number of places that hold job id i: entries of the three store lists plus
\* the processing set.
Occurrences(i) ==
  Cardinality({k \in 1..Len(qHigh) : qHigh[k].separationId = i})
  + Cardinality({k \in 1..Len(qNormal) : qNormal[k].separationId = i})
  + Cardinality({k \in 1..Len(qRetry) : qRetry[k].separationId = i})
  + (IF processingJobs[i].inMap THEN 1 ELSE 0)

\* C1: in every reachable state each job id appears in at most one of the HIGH
\* queue, the NORMAL queue, the RETRY queue and the processing set, and never
\* twice within one of them.
C1_AtMostOnePlace == \A i \in JobIds : Occurrences(i) <= 1

\* C1 witness: one job waits on the RETRY list after a failed submission while
\* another one is in the processing set.
C1_Witness ==
  \E i, j \in JobIds :
    /\ i # j
    /\ i \in IdsOf(qRetry) /\ Len(retryDelays[i]) >= 1
    /\ processingJobs[j].inMap /\ status[j].status = "PROCESSING"

\* C2: while the circuit breaker is OPEN no processQueue tick pops a job from
\* the HIGH or NORMAL queue, and no job is submitted to the remote worker.
C2_NoDispatchWhileOpen ==
  [][circuitBreakerState = "OPEN" =>
       /\ Len(qHigh') >= Len(qHigh)
       /\ Len(qNormal') >= Len(qNormal)
       /\ \A d \in DOMAIN disp :
            disp'[d].pc = "submitting" => disp[d].pc = "submitting"]_vars

\* Number of user u's jobs that are queued or in the processing set.
UserJobs(u) ==
  Cardinality({k \in 1..Len(qHigh) : qHigh[k].userId = u})
  + Cardinality({k \in 1..Len(qNormal) : qNormal[k].userId = u})
  + Cardinality({k \in 1..Len(qRetry) : qRetry[k].userId = u})
  + Cardinality({i \in JobIds : processingJobs[i].inMap /\ processingJobs[i].userId = u})

\* C3: for every user, in every reachable state, at most 2 of the user's jobs
\* are queued (HIGH, NORMAL or RETRY list) or in the processing set, also when
\* several addJob calls of that user interleave.
C3_AtMostTwoPerUser == \A u \in Users : UserJobs(u) <= UserConcurrentLimit

\* C4: for every user and every instant, at most 5 addJob calls of that user
\* were accepted within the trailing 60 minutes.
C4_AtMostFivePerHour ==
  \A u \in Users :
    Cardinality({k \in 1..Len(admitTimes[u]) : admitTimes[u][k] > now - HourWindow})
      <= UserHourlyLimit

\* C10: an addJob call for a user who already has 2 jobs queued or processing
\* is rejected with RATE_LIMITED, that is, it does not get past the quota
\* check, and a call rejected so leaves the three lists and the user's
\* concurrent counter unchanged.
C10_ThirdCallRejected ==
  [][nextId' = nextId + 1 =>
       /\ \A a \in DOMAIN adm :
            (adm'[a].pc # "idle" /\ adm'[a].job.separationId = nextId)
              => UserJobs(UserIdOf(adm'[a].job.userId)) < UserConcurrentLimit
       /\ status'[nextId].status = "RATE_LIMITED"
            => /\ UNCHANGED <<qHigh, qNormal, qRetry>>
               /\ \A u \in Users : userKeys'[u].concurrent = userKeys[u].concurrent]_vars

\* C5: no more than RUNPOD_RATE_LIMIT dispatch attempts (timestamps written by
\* recordRunpodRequest) fall within the trailing 60 seconds, under every
\* interleaving of the dispatcher ticks.
C5_RateLimitHolds ==
  Cardinality({k \in 1..Len(runpodRequestTimes) :
                 runpodRequestTimes[k] > now - RateWindow}) <= RUNPOD_RATE_LIMIT

\* The entries of job id i on the three store lists.
QueuedEntries(i) ==
  {qHigh[k] : k \in {n \in 1..Len(qHigh) : qHigh[n].separationId = i}}
  \cup {qNormal[k] : k \in {n \in 1..Len(qNormal) : qNormal[n].separationId = i}}
  \cup {qRetry[k] : k \in {n \in 1..Len(qRetry) : qRetry[n].separationId = i}}

\* Job id i is held by no list, no invocation and not by the processing set.
Settled(i) ==
  /\ Occurrences(i) = 0
  /\ \A a \in DOMAIN adm : adm[a].job.separationId # i
  /\ \A d \in DOMAIN disp : disp[d].job.separationId # i

\* C6: a job whose submissions all fail with a retryable error is scheduled for
\* retry exactly 3 times and is then marked FAILED: it is never scheduled a 4th
\* time, its retryCount survives re-admission (a queued entry carries the
\* number of retry schedulings so far), and once it has left the system after
\* a retry it is FAILED after exactly 3 schedulings.
C6_FailsAfterThreeRetries ==
  \A i \in JobIds :
    /\ Len(retryDelays[i]) <= MaxRetries
    /\ \A e \in QueuedEntries(i) : e.retryCount = Len(retryDelays[i])
    /\ (Len(retryDelays[i]) >= 1 /\ Settled(i))
         => (status[i].status = "FAILED" /\ Len(retryDelays[i]) = MaxRetries)

\* C7: the k-th scheduling of one job onto the RETRY list uses the delay
\* base * 2^(k-1), base one minute: 1, 2, 4 minutes.
C7_DelayDoubles ==
  \A i \in JobIds :
    \A k \in 1..Len(retryDelays[i]) : retryDelays[i][k] = RetryBaseDelay * Pow2(k - 1)

\* C8: once the status record of a job is COMPLETE or FAILED, no later step of
\* a monitor tick (its progress update and its completion, failure and timeout
\* handling included) or of the cleanup changes it.
C8_TerminalStatusFrozen ==
  [][(mon' # mon \/ clean' # clean) =>
       \A i \in JobIds :
         status[i].status \in {"COMPLETE", "FAILED"} => status'[i] = status[i]]_vars

\* The successive values of a status record in the completion scenario.
ScenarioOrder ==
  {<<"NONE", "QUEUED">>, <<"QUEUED", "PROCESSING">>, <<"PROCESSING", "COMPLETE">>}

\* C9: a job admitted into the empty system, whose submission is accepted and
\* which the remote worker completes, has its status record go QUEUED, then
\* PROCESSING, then COMPLETE with the output locators set, in that order, and
\* once it is complete the user's concurrent counter is back at its value
\* before the submission (0).
C9_CompletionScenario ==
  [][\A i \in JobIds :
       /\ status'[i].status # status[i].status
            => <<status[i].status, status'[i].status>> \in ScenarioOrder
       /\ status'[i].status = "COMPLETE"
            => /\ status'[i].output
               /\ \A u \in Users : userKeys'[u].concurrent = 0]_vars

\* Number of service-level submission failures within the breaker's window
\* that ends now.
RecentServiceFailures ==
  Cardinality({k \in 1..Len(serviceFailureTimes) :
                 serviceFailureTimes[k] > now - FailureWindow})

\* C11: starting from CLOSED, the 5th consecutive service-level submission
\* failure (5xx answer, ECONNRESET, ETIMEDOUT) within the breaker's window moves
\* the breaker to OPEN, and a failure that is not the 5th within the window
\* leaves it CLOSED.
C11_TripsAtFiveFailures ==
  [][(circuitBreakerState = "CLOSED" /\ serviceFailureTimes' # serviceFailureTimes)
       => (circuitBreakerState' = "OPEN" <=> RecentServiceFailures' >= FailureThreshold)]_vars

\* After the step job id i has the status SERVICE_UNAVAILABLE and is held by no
\* list, no invocation and not by the processing set, so nothing can submit it.
RejectedUnavailable(i) ==
  /\ status'[i].status = "SERVICE_UNAVAILABLE"
  /\ i \notin IdsOf(qHigh') \cup IdsOf(qNormal') \cup IdsOf(qRetry')
  /\ ~processingJobs'[i].inMap
  /\ \A a \in DOMAIN adm : adm'[a].job.separationId # i
  /\ \A d \in DOMAIN disp : disp'[d].job.separationId # i

\* C12: while the circuit breaker is OPEN, an addJob call for a valid job of a
\* user within quota is rejected with SERVICE_UNAVAILABLE: no call gets past the
\* breaker check, a call that has passed the quota check (directly, or after
\* the hourly reset of checkUserLimits) writes SERVICE_UNAVAILABLE and ends,
\* the three lists stay as they are and the job is left where no dispatcher
\* can find it.
C12_RejectedWhileOpen ==
  [][circuitBreakerState = "OPEN" =>
       /\ \A a \in DOMAIN adm : adm'[a].pc = "capacity" => adm[a].pc = "capacity"
       /\ (nextId' = nextId + 1 /\ \A u \in Users : checkUserLimits(userKeys[u], now) # "REJECT")
            => /\ UNCHANGED <<qHigh, qNormal, qRetry, disp, remote>>
               /\ \/ RejectedUnavailable(nextId)
                  \/ \E a \in DOMAIN adm :
                       adm'[a].pc = "reset" /\ adm'[a].job.separationId = nextId
       /\ \A a \in DOMAIN adm :
            (adm[a].pc = "reset" /\ adm'[a] # adm[a])
              => /\ UNCHANGED <<qHigh, qNormal, qRetry, disp, remote>>
                 /\ RejectedUnavailable(adm[a].job.separationId)]_vars

\* C12 witness: the breaker is OPEN, a job was rejected with
\* SERVICE_UNAVAILABLE although its user is within quota, and it is nowhere.
C12_Witness ==
  /\ circuitBreakerState = "OPEN"
  /\ \E i \in JobIds :
       /\ status[i].status = "SERVICE_UNAVAILABLE"
       /\ Occurrences(i) = 0
       /\ remote[i] = "NONE"
  /\ \A u \in Users : checkUserLimits(userKeys[u], now) # "REJECT"

\* C13: the breaker becomes HALF_OPEN only from OPEN and only when the cool-down
\* of every trip, the most recent one included, has elapsed; and while it is
\* HALF_OPEN one dispatch goes through as the probe: no remote submission
\* starts while another one, begun in the same minute, is still waiting for
\* its outcome.
C13_SingleProbe ==
  [][/\ (circuitBreakerState # "HALF_OPEN" /\ circuitBreakerState' = "HALF_OPEN")
          => /\ circuitBreakerState = "OPEN"
             /\ \A k \in 1..Len(timers) : timers[k] <= now
     /\ circuitBreakerState = "HALF_OPEN"
          => \A d \in DOMAIN disp :
               (disp[d].pc # "submitting" /\ disp'[d].pc = "submitting")
                 => \A e \in DOMAIN disp \ {d} :
                      ~(/\ disp[e].pc = "submitting"
                        /\ processingJobs[disp[e].job.separationId].inMap
                        /\ processingJobs[disp[e].job.separationId].startedAt = now)]_vars

\* C14: while the breaker is HALF_OPEN, a submission that ends in success sets
\* it to CLOSED, and a submission that ends in a service-level failure sets it
\* back to OPEN and schedules a new cool-down timer, whatever the value of the
\* failure counter (a service-level failure is one that handleRunpodError
\* counts).
C14_ProbeOutcome ==
  [][circuitBreakerState = "HALF_OPEN" =>
       \A d \in DOMAIN disp :
         /\ (disp[d].pc = "accepted" /\ disp'[d].pc = "idle")
              => circuitBreakerState' = "CLOSED"
         /\ (disp[d].pc = "submitting" /\ disp'[d].pc = "idle"
               /\ runpodFailures'.count = runpodFailures.count + 1)
              => /\ circuitBreakerState' = "OPEN"
                 /\ timers' = Append(timers, now + CoolDown)]_vars

\* C15: an addJob call that has passed the quota and breaker checks measures
\* the total depth HIGH + NORMAL + RETRY; when the depth it measured is at or
\* above MAX_QUEUE_SIZE it writes QUEUE_FULL and ends, no list changes and
\* metrics.queueFullRejections grows by exactly 1; when it is below, the
\* counter stays and the call is not rejected with QUEUE_FULL.
C15_QueueFullRejected ==
  [][\A a \in DOMAIN adm :
       /\ (adm[a].pc # "capacity" /\ adm'[a].pc = "capacity")
            => adm'[a].size = Len(qHigh) + Len(qNormal) + Len(qRetry)
       /\ (adm[a].pc = "capacity" /\ adm'[a] # adm[a])
            => IF adm[a].size >= MAX_QUEUE_SIZE
               THEN /\ status'[adm[a].job.separationId].status = "QUEUE_FULL"
                    /\ adm'[a].pc = "idle"
                    /\ UNCHANGED <<qHigh, qNormal, qRetry>>
                    /\ metrics' = [metrics EXCEPT !.queueFullRejections = @ + 1]
               ELSE /\ status'[adm[a].job.separationId].status # "QUEUE_FULL"
                    /\ adm'[a].pc = "pushed"
                    /\ UNCHANGED metrics]_vars

\* C15 witness: with the three lists, the RETRY list among them, holding
\* MAX_QUEUE_SIZE jobs, one call has been rejected with QUEUE_FULL and
\* counted once.
C15_Witness ==
  /\ Len(qHigh) + Len(qNormal) + Len(qRetry) = MAX_QUEUE_SIZE
  /\ qRetry # <<>>
  /\ metrics.queueFullRejections = 1
  /\ \E i \in JobIds : status[i].status = "QUEUE_FULL" /\ Occurrences(i) = 0

\* C16: addJob checks required fields, user quota, circuit breaker and queue
\* capacity in this order and reports the first check that fails.  A call
\* whose job data lacks the id or the payload writes the status INVALID_JOB
\* and admits nothing; a call with a valid job of a user over quota writes
\* RATE_LIMITED also when the breaker is OPEN; a call that passes the quota
\* check while the breaker is OPEN writes SERVICE_UNAVAILABLE also when the
\* lists are full.
C16_ChecksInOrder ==
  [][/\ status'[NoId] # status[NoId] => status'[NoId].status = "INVALID_JOB"
     /\ nextId' = nextId + 1 =>
          LET job == lastJobData'
              verdict == checkUserLimits(userKeys[UserIdOf(job.userId)], now)
          IN /\ ~job.payload
                  => /\ status'[nextId].status = "INVALID_JOB"
                     /\ UNCHANGED <<adm, userKeys>>
             /\ (job.payload /\ verdict = "REJECT")
                  => status'[nextId].status = "RATE_LIMITED"
             /\ (job.payload /\ verdict = "OK" /\ circuitBreakerState = "OPEN")
                  => status'[nextId].status = "SERVICE_UNAVAILABLE"]_vars

\* The statuses addJob writes when it rejects a job.
Rejections == {"RATE_LIMITED", "SERVICE_UNAVAILABLE", "QUEUE_FULL", "QUEUE_ERROR"}

HeldPriorities(i) ==
  LET InList(q) == {q[k].priority : k \in {n \in 1..Len(q) : q[n].separationId = i}}
  IN (InList(qHigh) \cup InList(qNormal) \cup InList(qRetry)
        \cup {processingJobs[j].priority : j \in {n \in {i} : processingJobs[n].inMap}}
        \cup {adm[a].job.priority : a \in {x \in DOMAIN adm : adm[x].job.separationId = i}}
        \cup {disp[d].job.priority : d \in {x \in DOMAIN disp : disp[x].job.separationId = i}})
     \ {"NONE"}

\* C18: the addJob call whose checks have passed puts the job, with its
\* priority, at the entry end of exactly one list: the HIGH list when the
\* storage kind is file or local, the NORMAL list otherwise, and leaves the
\* other two lists unchanged; it then increments the user's concurrent and
\* hourly counters by exactly 1 each and writes the status QUEUED; and the
\* priority under which a job is held never changes, retries included.
C18_QueuedOnce ==
  [][/\ \A a \in DOMAIN adm :
          /\ (adm[a].pc = "capacity" /\ adm'[a].pc = "pushed")
               => LET job == adm[a].job
                      p == IF job.storageType \in {"file", "local"}
                           THEN "HIGH" ELSE "NORMAL"
                      e == adm'[a].job
                  IN /\ e.separationId = job.separationId
                     /\ e.priority = p
                     /\ IF p = "HIGH"
                        THEN qHigh' = <<e>> \o qHigh /\ UNCHANGED <<qNormal, qRetry>>
                        ELSE qNormal' = <<e>> \o qNormal /\ UNCHANGED <<qHigh, qRetry>>
          /\ (adm[a].pc = "pushed" /\ adm'[a].pc = "idle")
               => LET u == adm[a].job.userId
                  IN /\ userKeys' = [userKeys EXCEPT ![u].concurrent = @ + 1,
                                                     ![u].hourly = @ + 1]
                     /\ status'[adm[a].job.separationId].status = "QUEUED"
                     /\ UNCHANGED <<qHigh, qNormal, qRetry>>
     /\ \A i \in JobIds :
          HeldPriorities(i) # {} => HeldPriorities(i)' \subseteq HeldPriorities(i)]_vars

\* C18 witness: a locally stored job that was queued with HIGH priority and
\* counted once for its user has failed and been retried, and is in the
\* processing set with HIGH priority, while a URL job waits in the NORMAL list.
C18_Witness ==
  \E i \in JobIds :
    /\ lastJobData.separationId = i
    /\ lastJobData.storageType = "local"
    /\ Len(retryDelays[i]) >= 1
    /\ processingJobs[i].inMap
    /\ processingJobs[i].priority = "HIGH"
    /\ \E k \in 1..Len(qNormal) : qNormal[k].storageType = "url"
    /\ qHigh = <<>>

\* C19: when a remote submission fails, the job leaves the processing set and
\* the concurrent counter of the user who owns it goes down by 1, whether the
\* job is put on the RETRY list or marked FAILED.
C19_FailedSubmissionReleases ==
  [][\A d \in DOMAIN disp :
       (disp[d].pc = "submitting" /\ disp'[d].pc = "idle")
         => LET job == disp[d].job
            IN /\ ~processingJobs'[job.separationId].inMap
               /\ userKeys'[job.userId].concurrent
                    = userKeys[job.userId].concurrent - 1]_vars

\* C20: when a monitor tick has seen the remote worker report success for a
\* job of the processing set, its completion handler writes the status
\* COMPLETE, removes the job from the processing set and takes 1 off the
\* owner's concurrent counter; when it has seen the remote report failure,
\* its failure handler writes FAILED with the same removal and decrement;
\* and the step in which a tick is done with a poll that was answered
\* otherwise (still queued or running) changes neither the processing set
\* nor any user's counters.
C20_MonitorOutcomes ==
  [][\A m \in DOMAIN mon :
       LET id == mon[m].job
           u == mon[m].user
           released == /\ ~processingJobs'[id].inMap
                       /\ \A j \in JobIds \ {id} : processingJobs'[j] = processingJobs[j]
                       /\ userKeys' = [userKeys EXCEPT ![u].concurrent = @ - 1]
       IN /\ (mon[m].pc = "completing" /\ mon'[m].pc # "completing")
               => status'[id].status = "COMPLETE" /\ released
          /\ (mon[m].pc = "failing" /\ mon[m].had /\ mon'[m].pc # "failing")
               => status'[id].status = "FAILED" /\ released
          /\ (mon[m].pc = "polling" /\ mon[m].res \notin {"COMPLETED", "FAILED"}
                /\ (mon'[m].pc # "polling" \/ mon'[m].job # id))
               => UNCHANGED <<processingJobs, userKeys>>]_vars

\* C20 witness: after the first minute a monitor tick has seen the job
\* completed and is done; the job has the status COMPLETE with its output,
\* is out of the processing set, and its user's concurrent counter is back
\* from 1 to 0.
C20_Witness ==
  \E i \in JobIds :
    /\ status[i].status = "COMPLETE" /\ status[i].output
    /\ ~processingJobs[i].inMap
    /\ metrics.totalProcessed = 1
    /\ userKeys["u1"].hourly = 1 /\ userKeys["u1"].concurrent = 0
    /\ \E m \in DOMAIN mon : mon[m].pc = "idle" /\ mon[m].calls = 0
    /\ now > StartTime

\* C21: a job whose remote worker reports no terminal state is timed out once
\* it is older than 45 minutes: a monitor tick that is done with a poll of
\* such a job, whether the poll failed or was answered still-running, writes
\* the status TIMEOUT and enters handleJobTimeout, and the end of that handler
\* removes the job from the processing set and takes 1 off its user's
\* concurrent counter.
C21_TimedOutAfterCeiling ==
  [][\A m \in DOMAIN mon :
       LET id == mon[m].job
       IN /\ (/\ mon[m].pc = "polling"
               /\ now - mon[m].startedAt > JobTimeoutAge
               /\ processingJobs[id].inMap
               /\ remote[id] \notin {"COMPLETED", "FAILED"}
               /\ (mon'[m].pc # "polling" \/ mon'[m].job # id))
               => /\ mon'[m].pc = "timingOut"
                  /\ status'[id].status = "TIMEOUT"
          /\ (mon[m].pc = "timingOut" /\ mon[m].had /\ mon'[m].pc # "timingOut")
               => /\ ~processingJobs'[id].inMap
                  /\ userKeys' = [userKeys EXCEPT ![mon[m].user].concurrent = @ - 1]]_vars

\* C22: the retry manager never re-submits an entry of the RETRY list before
\* its retryAt.  An entry leaves the list only from the rpop end and only when
\* now >= retryAt, and it is then handed to addJob, whose quota and breaker
\* checks decide in that step (RATE_LIMITED, SERVICE_UNAVAILABLE, or on to the
\* capacity check) while the waiting lists and the processing set stay as
\* they are; while the entry at the rpop end is not due, every entry of the
\* list stays on it with its fields unchanged.
C22_NotBeforeRetryAt ==
  [][/\ Len(qRetry') < Len(qRetry)
          => LET job == rpopValue(qRetry)
                 id == job.separationId
                 verdict == checkUserLimits(userKeys[job.userId], now)
                 here == adm'[RetryCtx]
             IN /\ now >= job.retryAt
                /\ qRetry' = rpopRest(qRetry)
                /\ UNCHANGED <<qHigh, qNormal, processingJobs>>
                /\ adm[RetryCtx].pc = "idle"
                /\ CASE verdict = "REJECT" ->
                          here.pc = "idle" /\ status'[id].status = "RATE_LIMITED"
                     [] verdict = "OK" /\ circuitBreakerState = "OPEN" ->
                          here.pc = "idle" /\ status'[id].status = "SERVICE_UNAVAILABLE"
                     [] OTHER ->
                          /\ here.pc \in {"reset", "capacity"}
                          /\ here.job.separationId = id
                          /\ here.job.retryCount = job.retryCount
                          /\ here.job.storageType = job.storageType
     /\ (qRetry # <<>> /\ now < rpopValue(qRetry).retryAt)
          => \A k \in 1..Len(qRetry) :
               \E n \in 1..Len(qRetry') : qRetry'[n] = qRetry[k]]_vars

\* C22 witness: at the first minute a job whose retry had fallen due has been
\* re-admitted through addJob and queued again, while another job waits on
\* the RETRY list for a retryAt that has not come.
C22_Witness ==
  \E i, j \in JobIds :
    /\ Len(retryDelays[i]) >= 1
    /\ i \in IdsOf(qNormal)
    /\ status[i].status = "QUEUED"
    /\ adm[RetryCtx].pc = "idle"
    /\ j \in IdsOf(qRetry)
    /\ \A k \in 1..Len(qRetry) : now < qRetry[k].retryAt

\* C23: a job for which the remote worker executed and reported failure is
\* terminal and never retried: handleJobFailure writes FAILED and puts the
\* job on no list, and from the remote failure on the job is never on the
\* RETRY, HIGH or NORMAL list, is never re-submitted by the retry manager
\* and is never popped for dispatch again.
C23_RemoteFailureTerminal ==
  [][/\ \A m \in DOMAIN mon :
          (mon[m].pc = "failing" /\ mon'[m].pc # "failing")
            => /\ status'[mon[m].job].status = "FAILED"
               /\ UNCHANGED <<qHigh, qNormal, qRetry>>
     /\ \A i \in JobIds :
          remote[i] = "FAILED"
            => /\ remote'[i] = "FAILED"
               /\ i \notin IdsOf(qHigh') \cup IdsOf(qNormal') \cup IdsOf(qRetry')
               /\ adm'[RetryCtx].pc \in {"reset", "capacity"}
                    => adm'[RetryCtx].job.separationId # i
               /\ \A d \in DOMAIN disp : disp'[d].pc \in {"popped", "submitting"}
                                            => disp'[d].job.separationId # i]_vars

\* C23 witness: a job that had been retried once after a failed submission
\* was then accepted, executed and reported failed by the remote worker;
\* handleJobFailure has run, the status is FAILED and the job is held nowhere.
C23_Witness ==
  \E i \in JobIds :
    /\ Len(retryDelays[i]) >= 1
    /\ remote[i] = "FAILED"
    /\ metrics.totalFailed >= 1
    /\ status[i].status = "FAILED"
    /\ Occurrences(i) = 0
    /\ \A m \in DOMAIN mon : mon[m].pc = "idle"

\* C24: the remote worker client performs no retries of its own: one dispatch
\* of a job makes at most one remote submit request, and one status poll makes
\* at most one remote status request, whatever the remote worker answers.
C24_OneRemoteCallPerAttempt ==
  /\ \A d \in DOMAIN disp : disp[d].calls <= 1
  /\ \A m \in DOMAIN mon : mon[m].calls <= 1

\* The processQueue(p) invocations that are suspended at an await between
\* their capacity check and the end of startJobProcessing.
DispatchingTicks(p) ==
  {d \in DOMAIN disp : /\ disp[d].pc \in {"popped", "submitting", "accepted"}
                       /\ disp[d].priority = p}

\* C25: no two dispatch ticks of the same priority class run concurrently: in
\* every reachable state at most one processQueue(p) invocation, started by
\* its interval timer or by addJob's setImmediate, is between its capacity
\* check and the end of startJobProcessing.
C25_OneTickPerClass ==
  \A p \in Priorities : Cardinality(DispatchingTicks(p)) <= 1

\* C26: in every reachable state the processing set holds at most
\* MAX_CONCURRENT_JOBS jobs.
C26_ProcessingWithinCeiling ==
  processingSize(processingJobs) <= MAX_CONCURRENT_JOBS

\* C27: in every reachable state at most PRIORITY_FILE_LIMIT jobs of the
\* processing set have HIGH priority.
C27_HighWithinSubLimit ==
  Cardinality({i \in JobIds : processingJobs[i].inMap
                               /\ processingJobs[i].priority = "HIGH"})
    <= PRIORITY_FILE_LIMIT

\* C28: with every timer firing again and again and a remote worker that
\* finishes every job, a job on the NORMAL list is eventually popped for
\* dispatch, also when HIGH jobs keep arriving without bound.
C28_NormalNotStarved ==
  \A i \in 1..FloodJobs : (i \in IdsOf(qNormal)) ~> (i \notin IdsOf(qNormal))

\* C29: a waiting list changes only by one entry at a time.  An accepted job
\* is pushed behind every entry already on the list, which all keep their
\* places; a processQueue invocation that begins takes exactly one entry, the
\* one at the other end, which was pushed before every entry that stays.  So
\* of two jobs of one class the one pushed first is popped first.
C29_OldestFirst ==
  [][\A p \in Priorities :
       queueOf(p)' # queueOf(p) =>
         \/ /\ Len(queueOf(p)') = Len(queueOf(p)) + 1
            /\ SubSeq(queueOf(p)', 2, Len(queueOf(p)')) = queueOf(p)
            /\ disp' = disp \/ \E d \in DOMAIN disp : disp'[d].pc = "immediate"
         \/ /\ queueOf(p) # <<>>
            /\ queueOf(p)' = SubSeq(queueOf(p), 1, Len(queueOf(p)) - 1)
            /\ \E d \in DOMAIN disp :
                 /\ disp[d].pc \in {"idle", "immediate"}
                 /\ disp'[d].pc = "popped"
                 /\ disp'[d].priority = p
                 /\ disp'[d].job = queueOf(p)[Len(queueOf(p))]
                 /\ \A e \in DOMAIN disp \ {d} : disp'[e] = disp[e]]_vars

\* Two overlapping invocations have popped jobs 1 and 2 while job 3, accepted
\* after them, still waits.
C29_Witness ==
  /\ \E d, e \in DOMAIN disp :
       /\ d # e
       /\ disp[d].pc = "popped" /\ disp[d].job.separationId = 1
       /\ disp[e].pc = "popped" /\ disp[e].job.separationId = 2
  /\ IdsOf(qNormal) = {3}

\* C30: a submission that fails with a client or validation error leaves the
\* failure counter, the breaker state, the count of trips and the cool-down
\* timers as they were.  In the validation scenario the submissions fail with
\* a timeout, a DNS failure or a client error; the client errors are those of
\* a job without audio URL and those not retried although retries remain.
C30_ClientErrorsNotCounted ==
  [][\A d \in DOMAIN disp :
       (/\ disp[d].pc = "submitting"
        /\ disp'[d].pc = "idle"
        /\ \/ ~disp[d].job.payload
           \/ /\ disp[d].job.retryCount < MaxRetries
              /\ status'[disp[d].job.separationId].status = "FAILED")
       => /\ runpodFailures' = runpodFailures
          /\ circuitBreakerState' = circuitBreakerState
          /\ metrics'.circuitBreakerTrips = metrics.circuitBreakerTrips
          /\ timers' = timers]_vars

\* A submission has failed with a client error when one more counted failure
\* would have opened the breaker: counter and breaker are as before.
C30_Witness ==
  /\ \E i \in JobIds : status[i].status = "FAILED" /\ retryDelays[i] = <<>>
  /\ runpodFailures.count = FailureThreshold - 1
  /\ circuitBreakerState = "CLOSED"

\* C31: no addJob invocation ends by throwing, whatever it is called with
\* (processQueue, monitorRunningJobs, processRetryQueue and performCleanup
\* have no step that throws: each body is one try block whose catch only logs).
C31_NoEscapingFailure == \A a \in DOMAIN adm : adm[a].pc # "threw"

\* C32: healthCheck records the breaker as healthy only if it finds it CLOSED
\* and records the sum of the three list lengths as queue depth; when the
\* depth cannot be read it returns healthy = false, and otherwise it returns
\* healthy = true exactly when the store answered the ping, the breaker was
\* found CLOSED and the depth read was below MAX_QUEUE_SIZE.
C32_HealthyExactlyWhen ==
  [][/\ health.pc \in {"idle", "returned"} /\ health'.pc = "size"
        => (health'.runpod <=> circuitBreakerState = "CLOSED")
     /\ health.pc = "size" /\ health'.pc = "ping"
        => health'.queueSize = Len(qHigh) + Len(qNormal) + Len(qRetry)
     /\ health.pc = "size" /\ health'.pc = "returned"
        => ~health'.healthy
     /\ health.pc = "ping" /\ health'.pc = "returned"
        => (health'.healthy <=>
              /\ health'.redis
              /\ health.runpod
              /\ health.queueSize < MAX_QUEUE_SIZE)]_vars

\* healthCheck has returned healthy = false for the sole reason that it found
\* the breaker HALF_OPEN.
C32_Witness ==
  /\ health.pc = "returned" /\ ~health.healthy /\ ~health.failed
  /\ health.redis /\ ~health.runpod /\ health.queueSize < MAX_QUEUE_SIZE
  /\ circuitBreakerState = "HALF_OPEN"

\* C33: the HIGH, NORMAL and RETRY lists together never hold more than
\* MAX_QUEUE_SIZE entries.
C33_DepthWithinCapacity ==
  Len(qHigh) + Len(qNormal) + Len(qRetry) <= MAX_QUEUE_SIZE

\* No addJob, processQueue, monitorRunningJobs or performCleanup invocation is
\* suspended at an await.
Quiescent ==
  /\ \A a \in DOMAIN adm : adm[a].pc = "idle"
  /\ \A d \in DOMAIN disp : disp[d].pc \in {"idle", "immediate"}
  /\ \A m \in DOMAIN mon : mon[m].pc = "idle"
  /\ clean.pc = "idle"

\* C34: in every quiescent state each user's stored concurrent counter is the
\* number of the user's jobs on the HIGH, NORMAL and RETRY lists and in the
\* processing set (so it is not negative, and 0 when the user has no job left).
C34_CounterMatchesJobs ==
  Quiescent => \A u \in Users : userKeys[u].concurrent = UserJobs(u)

\* C35: a job that addJob accepted and that is held by no list, no invocation
\* and not by the processing set has ended: its status is COMPLETE, FAILED or
\* TIMEOUT, in particular none of the rejections RATE_LIMITED,
\* SERVICE_UNAVAILABLE and QUEUE_FULL.  A job was accepted when a submission
\* of it was scheduled for retry, or when its status is not one that a
\* rejecting addJob wrote.
C35_AcceptedJobsEnd ==
  \A i \in JobIds :
    (/\ Settled(i)
     /\ status[i] # NoStatus
     /\ Len(retryDelays[i]) >= 1 \/ status[i].status \notin Rejections)
      => status[i].status \in {"COMPLETE", "FAILED", "TIMEOUT"}

\* The moves of the circuit breaker that the design allows.
BreakerMoves ==
  {<<"CLOSED", "OPEN">>, <<"OPEN", "HALF_OPEN">>,
   <<"HALF_OPEN", "CLOSED">>, <<"HALF_OPEN", "OPEN">>}

\* C36: the breaker state changes only along CLOSED -> OPEN, OPEN -> HALF_OPEN,
\* HALF_OPEN -> CLOSED and HALF_OPEN -> OPEN, and a cool-down timer that fires
\* finds the breaker not CLOSED and leaves no timer of a later trip pending
\* whose cool-down has not yet elapsed.
C36_BreakerMoves ==
  [][/\ circuitBreakerState' # circuitBreakerState
          => <<circuitBreakerState, circuitBreakerState'>> \in BreakerMoves
     /\ Len(timers') < Len(timers)
          => /\ circuitBreakerState # "CLOSED"
             /\ \A k \in 1..Len(timers') : timers'[k] <= now]_vars

\* C37: metrics.circuitBreakerTrips counts the transitions into OPEN: a step
\* increments it by one exactly when the breaker goes from another state to
\* OPEN, and while the breaker is OPEN no step increments it or schedules
\* another cool-down timer.
C37_TripsCountTransitions ==
  [][/\ metrics'.circuitBreakerTrips =
          metrics.circuitBreakerTrips
            + (IF circuitBreakerState # "OPEN" /\ circuitBreakerState' = "OPEN"
               THEN 1 ELSE 0)
     /\ circuitBreakerState = "OPEN" => Len(timers') <= Len(timers)]_vars

\* C38: the terminal handling of a job takes effect once: totalProcessed and
\* totalFailed together never exceed the number of jobs submitted so far, and
\* a step decrements a user's concurrent counter only if it removes a job of
\* that user from the processing set.
C38_TerminalHandlingOnce ==
  [][/\ metrics'.totalProcessed + metrics'.totalFailed <= nextId' - 1
     /\ \A u \in Users :
          userKeys'[u].concurrent < userKeys[u].concurrent
            => \E i \in JobIds :
                 /\ processingJobs[i].inMap /\ ~processingJobs'[i].inMap
                 /\ processingJobs[i].userId = u]_vars

\* C39: a submission that ends in failure leaves its job out of the processing
\* set, also when the store rejects the increment of the failure counter or
\* the push onto the RETRY list while the failure is being handled.
C39_FailedSubmissionLeavesSet ==
  [][\A d \in DOMAIN disp :
       (disp[d].pc = "submitting" /\ disp'[d].pc = "idle")
         => ~processingJobs'[disp[d].job.separationId].inMap]_vars

=============================================================================
